---- MODULE Spec2Model ----
(***************************************************************************)
(* The auto-documentation trigger controller of cupple                     *)
(* (src/tools/autodoc.ts, class AutodocController) as a state machine.     *)
(*                                                                         *)
(* Time is the value returned by Date.now(); Node timers are modelled as a *)
(* queue of live timeouts that fire when their due time is reached.  The   *)
(* documentation generator (updateMarkdownForFile) is an asynchronous      *)
(* collaborator: a call stays in flight for an arbitrary time and then     *)
(* returns a successful result, returns an unsuccessful result, or throws. *)
(* File paths are sequences of one-character strings, so that the string   *)
(* tests of shouldExclude are computed as the code computes them.          *)
(***************************************************************************)
EXTENDS Integers, Sequences, FiniteSets, Bags, TLC

(***************************************************************************)
(* Bounds of the model.                                                    *)
(***************************************************************************)
MaxTime == 5
MaxAcc == 4
MaxInflight == 2
MaxTimers == 2
MaxPairTime == 2
MaxContentLen == 4
MaxNotifications == 3

(* The value of an absent optional field / a missing Map entry.            *)
Undefined == -1

(* JavaScript truthiness of an optional number: undefined and 0 are falsy. *)
Falsy(x) == x = Undefined \/ x = 0

(* JavaScript  x || d  on an optional number.                              *)
OrElse(x, d) == IF Falsy(x) THEN d ELSE x

(***************************************************************************)
(* Map<K, V> as a function whose domain is the set of keys present.        *)
(***************************************************************************)
EmptyMap == [k \in {} |-> Undefined]
MapHas(m, k) == k \in DOMAIN m
MapGet(m, k) == IF k \in DOMAIN m THEN m[k] ELSE Undefined
MapSet(m, k, v) == [x \in (DOMAIN m) \cup {k} |-> IF x = k THEN v ELSE m[x]]
MapDelete(m, k) == [x \in (DOMAIN m) \ {k} |-> m[x]]
MapValues(m) == {m[k] : k \in DOMAIN m}

(***************************************************************************)
(* String operations used by shouldExclude.                                *)
(***************************************************************************)
StrIncludes(s, sub) ==
    \E i \in 1..(Len(s) - Len(sub) + 1) : SubSeq(s, i, i + Len(sub) - 1) = sub

StrEndsWith(s, suf) ==
    /\ Len(suf) <= Len(s)
    /\ SubSeq(s, Len(s) - Len(suf) + 1, Len(s)) = suf

(* filePath.match(/\.[^.]+$/): the position of a dot that is followed, up  *)
(* to the end of the string, by at least one character and by no other     *)
(* dot; 0 when there is no match.                                          *)
ExtMatchPos(s) ==
    LET ok == {i \in 1..Len(s) : /\ s[i] = "."
                                 /\ i < Len(s)
                                 /\ \A j \in (i + 1)..Len(s) : s[j] # "."}
    IN IF ok = {} THEN 0 ELSE CHOOSE i \in ok : \A j \in ok : i <= j

ExtOf(s) == SubSeq(s, ExtMatchPos(s), Len(s))

(***************************************************************************)
(* The paths and the extensions the environment draws from.                *)
(***************************************************************************)
PathA == <<"/", "s", "/", "a", ".", "t", "s">>
PathB == <<"/", "x", "d", "i", "s", "t", "/", "b", ".", "j", "s">>
PathInDist == <<"/", "d", "i", "s", "t", "/", "a", ".", "t", "s">>
PathInDistWin == <<"\\", "d", "i", "s", "t", "\\", "a", ".", "t", "s">>
PathMd == <<"/", "s", "/", "a", ".", "m", "d">>
PathPy == <<"/", "s", "/", "a", ".", "p", "y">>
PathNoExt == <<"/", "s", ".", "t", "s", "/", "m", "k">>

ExcludedSamples == {PathInDist, PathInDistWin, PathMd, PathPy, PathNoExt}

Paths == {PathA, PathB} \cup ExcludedSamples

(* The paths the events of the main specification are about.              *)
SpecPaths == {PathA, PathMd}

ExtTs == <<".", "t", "s">>
ExtTsx == <<".", "t", "s", "x">>
ExtJs == <<".", "j", "s">>
ExtJsx == <<".", "j", "s", "x">>
ExtMd == <<".", "m", "d">>

DefaultExcludeDirs ==
    { <<"n", "o", "d", "e", "_", "m", "o", "d", "u", "l", "e", "s">>,
      <<"d", "i", "s", "t">>,
      <<".", "c", "u", "p", "p", "l", "e">>,
      <<".", "g", "i", "t">>,
      <<"d", "o", "c", "s">> }

DefaultExtensions == {ExtTs, ExtTsx, ExtJs, ExtJsx}

DefaultCooldownMs == 30000
DefaultDebounceMs == 20000


(***************************************************************************)
(* AutodocConfig values the constructor is given.  An optional number is   *)
(* Undefined when absent; an optional array or string is <<>> when absent  *)
(* and <<value>> when present.                                             *)
(***************************************************************************)
Absent == <<>>
Present(v) == <<v>>
IsAbsent(opt) == Len(opt) = 0
ValueOf(opt) == opt[1]

(* extensionConfigs that also configure the .md extension.                 *)
ExtConfigsWithMd ==
    << [extension |-> ExtTs, detailLevel |-> "brief"],
       [extension |-> ExtJs, detailLevel |-> "comprehensive"],
       [extension |-> ExtMd, detailLevel |-> "standard"],
       [extension |-> ExtTs, detailLevel |-> "comprehensive"] >>

ConfigOf(generateOnCreate, extensionConfigs, cooldown, debounce) ==
    [changeThreshold |-> 3,
     generateOnCreate |-> generateOnCreate,
     fileExtensions |-> Absent,
     extensionConfigs |-> extensionConfigs,
     excludeDirs |-> Absent,
     cooldownMs |-> cooldown,
     debounceMs |-> debounce,
     docDetailLevel |-> Absent]

(* Main specification: cooldown 2 and debounce 1 time units.               *)
Configs ==
    { ConfigOf(TRUE, Absent, 2, 1),
      ConfigOf(FALSE, Present(ExtConfigsWithMd), 2, 1) }

(* Burst specification: debounce 2 time units.                             *)
BurstConfigs ==
    { ConfigOf(FALSE, Absent, 3, 2),
      ConfigOf(FALSE, Present(ExtConfigsWithMd), 2, 2) }

(* The worked scenario: changeThreshold 40 with the default debounce and   *)
(* cooldown delays (20000 and 30000 ms), Modified events of 10, 15 and 20  *)
(* lines at 0, 5000 and 8000 ms and one of 50 lines at 29000 ms, followed  *)
(* in steps of 1000 ms up to 60000 ms.                                     *)
Scenario ==
    [config |-> [ConfigOf(FALSE, Absent, Undefined, Undefined)
                   EXCEPT !.changeThreshold = 40],
     events |-> << [at |-> 0, lines |-> 10], [at |-> 5000, lines |-> 15],
                   [at |-> 8000, lines |-> 20], [at |-> 29000, lines |-> 50] >>,
     step |-> 1000,
     end |-> 60000,
     maxAcc |-> 95]

(* linesChanged of an event: optional.                                     *)
LineVals == {Undefined, 0, 1, 2}

VARIABLES
    now,                \* Date.now()
    config,             \* this.config
    env,                \* the event paths, the handlers observed and the
                        \* history kept (fixed by the specification)
    fileChanges,        \* Map path -> cumulative changed lines
    documentedFiles,    \* Set of documented paths
    lastDocumentedTime, \* Map path -> time of the last timer dispatch
    pendingTimers,      \* Map path -> timer handle
    timers,             \* Node's live timeouts: {[id, path, due]}
    inflight,           \* bag of generateDocumentation calls awaiting the generator
    last,               \* the handler that ran last and what it emitted
    lastSched,          \* history: path -> time of the latest dispatch
    timerSched,         \* history: path -> latest timer dispatch since a reset
    modSinceReset,      \* history: path -> a Modified event since the last reset
    burst,              \* history of a burst of Modified events (SpecBurst)
    fw                  \* the FileWatcher and its file system

ctrl == <<fileChanges, documentedFiles, lastDocumentedTime, pendingTimers>>
ghosts == <<lastSched, timerSched, modSinceReset>>
vars == <<now, config, env, fileChanges, documentedFiles, lastDocumentedTime,
          pendingTimers, timers, inflight, last, lastSched, timerSched,
          modSinceReset, burst, fw>>

NoPath == <<>>
NoStr == "undefined"

(* constructor: this.cooldownMs = config.cooldownMs || 30000               *)
cooldownMs == OrElse(config.cooldownMs, DefaultCooldownMs)

(* constructor: this.debounceMs = config.debounceMs || 20000               *)
debounceMs == OrElse(config.debounceMs, DefaultDebounceMs)

(* constructor: the extension -> detail level map.  forEach + Map.set: a  *)
(* later entry for the same extension overrides an earlier one.            *)
ExtMapOfConfigs(cfgs) ==
    [e \in {cfgs[i].extension : i \in DOMAIN cfgs} |->
        LET idx == {i \in DOMAIN cfgs : cfgs[i].extension = e}
            lst == CHOOSE i \in idx : \A j \in idx : j <= i
        IN cfgs[lst].detailLevel]

extensionDetailMap ==
    IF ~IsAbsent(config.extensionConfigs)
    THEN ExtMapOfConfigs(ValueOf(config.extensionConfigs))
    ELSE LET defaultDetail == IF IsAbsent(config.docDetailLevel)
                              THEN "standard"
                              ELSE ValueOf(config.docDetailLevel)
             extensions == IF IsAbsent(config.fileExtensions)
                           THEN DefaultExtensions
                           ELSE ValueOf(config.fileExtensions)
         IN [e \in extensions |-> defaultDetail]

excludeDirs ==
    IF IsAbsent(config.excludeDirs) THEN DefaultExcludeDirs
    ELSE ValueOf(config.excludeDirs)

(***************************************************************************)
(* shouldExclude(filePath)                                                 *)
(***************************************************************************)
InExcludedDir(filePath) ==
    \E dir \in excludeDirs :
        \/ StrIncludes(filePath, <<"/">> \o dir \o <<"/">>)
        \/ StrIncludes(filePath, <<"\\">> \o dir \o <<"\\">>)

ShouldExcludeNoDirs(filePath) ==
    \/ StrEndsWith(filePath, ExtMd)
    \/ ExtMatchPos(filePath) = 0
    \/ ~MapHas(extensionDetailMap, ExtOf(filePath))

ShouldExclude(filePath) ==
    \/ InExcludedDir(filePath)
    \/ StrEndsWith(filePath, ExtMd)
    \/ ExtMatchPos(filePath) = 0
    \/ ~MapHas(extensionDetailMap, ExtOf(filePath))

GetDetailLevelStandard(filePath) == "standard"

(* getDetailLevelForFile(filePath)                                         *)
GetDetailLevelForFile(filePath) ==
    IF ExtMatchPos(filePath) = 0 THEN "standard"
    ELSE IF MapHas(extensionDetailMap, ExtOf(filePath))
         THEN extensionDetailMap[ExtOf(filePath)]
         ELSE "standard"

(***************************************************************************)
(* isInCooldown(filePath)                                                  *)
(***************************************************************************)
IsInCooldownNever(filePath) == FALSE

IsInCooldown(filePath) ==
    LET lastTime == MapGet(lastDocumentedTime, filePath)
    IN IF Falsy(lastTime) THEN FALSE
       ELSE (now - lastTime) < cooldownMs

(***************************************************************************)
(* Timers (setTimeout / clearTimeout) and in-flight generator calls.       *)
(***************************************************************************)
(* Handles are object identities; an id is free for a new timeout when no  *)
(* live timeout and no tracked handle carries it.                          *)
FreeTimerIds(ts, pt) == (1..MaxTimers) \ ({t.id : t \in ts} \cup MapValues(pt))

NewTimerId(ts, pt) ==
    CHOOSE i \in FreeTimerIds(ts, pt) : \A j \in FreeTimerIds(ts, pt) : i <= j

ClearTimeout(ts, id) == {t \in ts : t.id # id}

CanStart == BagCardinality(inflight) < MaxInflight

(* A call generateDocumentation(filePath, linesChanged) as the caller made *)
(* it; origin names the caller.                                            *)
Call(filePath, linesChanged, origin) ==
    [path |-> filePath, linesChanged |-> linesChanged, origin |-> origin,
     detailLevel |-> GetDetailLevelForFile(filePath)]

(* Whether the specification keeps the history named h.                   *)
Tracks(h) == h \in env.track

(* The call while it awaits the generator.  linesChanged is not read by    *)
(* generateDocumentation, so the pending call does not carry it.  History: *)
(* stamp is the cooldown timestamp the caller recorded for this dispatch,  *)
(* resetSince whether the path was reset since the call was made.          *)
Pending(filePath, origin) ==
    [path |-> filePath, origin |-> origin,
     stamp |-> IF Tracks("stamp") /\ origin = "timer" THEN now ELSE Undefined,
     resetSince |-> FALSE]

(* History: whether a Modified event was handled since the last reset.     *)
NoteModified(p, b) ==
    IF Tracks("reset") THEN [modSinceReset EXCEPT ![p] = b] ELSE modSinceReset

(* History: the time of the latest timer dispatch since the last reset.    *)
NoteTimerSched(p, v) ==
    IF Tracks("sched") THEN [timerSched EXCEPT ![p] = v] ELSE timerSched

(* History: the time of the latest dispatch of a path.                     *)
NoteSched(p) ==
    IF Tracks("sched") THEN [lastSched EXCEPT ![p] = now] ELSE lastSched

(* The largest accumulated count the model follows.                        *)
AccBound == IF Tracks("scenario") THEN Scenario.maxAcc ELSE MaxAcc

Started(g) == inflight (+) SetToBag({g})

NoOutcome ==
    [kind |-> "none", success |-> FALSE, outputPath |-> NoStr, error |-> NoStr]

(* What a handler did: the operation and its path, the number of live      *)
(* timeouts it cancelled, the generator calls it started, and (for a       *)
(* completion) the generator's outcome, the results handed to the          *)
(* callback, whether the callback threw, whether an exception left the     *)
(* handler and (history) whether the path was reset while the call was in  *)
(* flight.                                                                 *)
Ran(op, path, started) ==
    [op |-> op, path |-> path, cleared |-> 0, started |-> started,
     outcome |-> NoOutcome, sink |-> <<>>, sinkThrew |-> FALSE,
     escaped |-> FALSE, afterReset |-> FALSE]

(* The part of it the specification observes: what the handlers named in  *)
(* env.watch did.                                                          *)
Observed(r) == IF r.op \in env.watch THEN r ELSE Ran("-", NoPath, {})

NoBurst ==
    [sum |-> 0, lastAt |-> Undefined, n |-> 0, lines |-> Undefined,
     idle |-> FALSE]

(* No FileWatcher is attached: events come from the environment.           *)
NoWatcher == [mode |-> "none"]

InitController(configs, paths, watch, track) ==
    /\ now = 1
    /\ config \in configs
    /\ env = [paths |-> paths, watch |-> watch, track |-> track]
    /\ fileChanges = EmptyMap
    /\ documentedFiles = {}
    /\ lastDocumentedTime = EmptyMap
    /\ pendingTimers = EmptyMap
    /\ timers = {}
    /\ inflight = EmptyBag
    /\ last = Observed(Ran("constructor", NoPath, {}))
    /\ lastSched = [p \in Paths |-> Undefined]
    /\ timerSched = [p \in Paths |-> Undefined]
    /\ modSinceReset = [p \in Paths |-> FALSE]
    /\ burst = [p \in Paths |-> NoBurst]

InitWith(configs, paths, watch, track) ==
    /\ InitController(configs, paths, watch, track)
    /\ fw = NoWatcher

Init == InitWith(Configs, SpecPaths, {}, {})

(***************************************************************************)
(* The watcher callback: event.type = 'directory_created'.                 *)
(***************************************************************************)
DirectoryCreated(p) ==
    /\ last' = Observed(Ran("directory_created", p, {}))
    /\ UNCHANGED <<now, config, env, ctrl, timers, inflight, ghosts>>

(***************************************************************************)
(* The watcher callback: event.type = 'file_created'.                      *)
(***************************************************************************)
CreatedDispatchesUnlessCooling(p) ==
    ~ShouldExclude(p) /\ config.generateOnCreate /\ ~IsInCooldown(p)

CreatedDispatchesAlways(p) == ~ShouldExclude(p)

CreatedDispatches(p) == ~ShouldExclude(p) /\ config.generateOnCreate

FileCreated(p, l) ==
    /\ CreatedDispatches(p) => CanStart
    /\ inflight' = IF CreatedDispatches(p) THEN Started(Pending(p, "created"))
                   ELSE inflight
    /\ fileChanges' =
         IF ~ShouldExclude(p) /\ ~config.generateOnCreate /\ ~Falsy(l)
         THEN MapSet(fileChanges, p, l)
         ELSE fileChanges
    /\ lastSched' = IF CreatedDispatches(p) THEN NoteSched(p) ELSE lastSched
    /\ last' = Observed(Ran("file_created", p,
                            IF CreatedDispatches(p)
                            THEN {Call(p, OrElse(l, 0), "created")} ELSE {}))
    /\ UNCHANGED <<now, config, env, documentedFiles, lastDocumentedTime,
                   pendingTimers, timers, timerSched, modSinceReset>>

(***************************************************************************)
(* The watcher callback: event.type = 'file_modified'.                     *)
(***************************************************************************)
TotalChangesLastOnly(p, l) == OrElse(l, 0)

TotalChangesRaw(p, l) == OrElse(MapGet(fileChanges, p), 0) + l

TotalChanges(p, l) == OrElse(MapGet(fileChanges, p), 0) + OrElse(l, 0)

TimersKeptOnRestart(p) == timers

(* The timeouts left after the handler cleared the path's existing timer.  *)
TimersAfterClear(p) ==
    IF MapHas(pendingTimers, p) THEN ClearTimeout(timers, pendingTimers[p])
    ELSE timers

StartsTimerNever(p, l) == FALSE

StartsTimerWhileCooling(p, l) ==
    TotalChanges(p, l) >= config.changeThreshold

(* Whether the handler starts a debounce timer.                            *)
StartsTimer(p, l) ==
    /\ TotalChanges(p, l) >= config.changeThreshold
    /\ ~IsInCooldown(p)

DueTimeAfterCooldown == now + cooldownMs

DueTimeNow == now

(* When a timeout set now fires: setTimeout(..., this.debounceMs).         *)
DueTime == now + debounceMs

FileModified(p, l) ==
    IF ShouldExclude(p)
    THEN /\ last' = Observed(Ran("file_modified", p, {}))
         /\ UNCHANGED <<now, config, env, ctrl, timers, inflight, ghosts>>
    ELSE LET cleared == IF TotalChanges(p, l) >= config.changeThreshold
                        THEN TimersAfterClear(p) ELSE timers
             others == MapDelete(pendingTimers, p)
             id == NewTimerId(cleared, others)
         IN /\ TotalChanges(p, l) <= AccBound
            /\ StartsTimer(p, l) => FreeTimerIds(cleared, others) # {}
            /\ fileChanges' = MapSet(fileChanges, p, TotalChanges(p, l))
            /\ timers' =
                 IF StartsTimer(p, l)
                 THEN cleared \cup
                        {[id |-> id, path |-> p, due |-> DueTime]}
                 ELSE cleared
            /\ pendingTimers' = IF StartsTimer(p, l)
                                THEN MapSet(pendingTimers, p, id)
                                ELSE pendingTimers
            /\ modSinceReset' = NoteModified(p, TRUE)
            /\ last' = Observed([Ran("file_modified", p, {}) EXCEPT
                                   !.cleared = Cardinality(timers \ cleared)])
            /\ UNCHANGED <<now, config, env, documentedFiles, lastDocumentedTime,
                           inflight, lastSched, timerSched>>

(***************************************************************************)
(* The debounce timer's callback, up to its await.                         *)
(***************************************************************************)
FileChangesResetAtSchedule(p) == MapSet(fileChanges, p, 0)

(* fileChanges once the dispatch is scheduled: the counter is left alone.  *)
FileChangesAtSchedule(p) == fileChanges

CooldownNotSet(p) == lastDocumentedTime

CooldownForEveryPath(p) == [q \in env.paths |-> now]

(* lastDocumentedTime once the dispatch is scheduled.                      *)
CooldownAtSchedule(p) == MapSet(lastDocumentedTime, p, now)

(* The count a timer captured when it was set, had it captured one.        *)
FinalChangesAtStart(p) ==
    IF fw.mode = "ledger" /\ p \in DOMAIN fw.atStart /\ fw.atStart[p] >= 0
    THEN fw.atStart[p]
    ELSE OrElse(MapGet(fileChanges, p), 0)

(* const finalChanges = this.fileChanges.get(event.path) || 0              *)
FinalChanges(p) == OrElse(MapGet(fileChanges, p), 0)

TimerFire(t) ==
    LET p == t.path
        fires == ~IsInCooldown(p)
    IN /\ t \in timers
       /\ t.due <= now
       /\ fires => CanStart
       /\ timers' = timers \ {t}
       /\ pendingTimers' = MapDelete(pendingTimers, p)
       /\ lastDocumentedTime' = IF fires THEN CooldownAtSchedule(p)
                                ELSE lastDocumentedTime
       /\ inflight' = IF fires THEN Started(Pending(p, "timer")) ELSE inflight
       /\ fileChanges' = IF fires THEN FileChangesAtSchedule(p) ELSE fileChanges
       /\ lastSched' = IF fires THEN NoteSched(p) ELSE lastSched
       /\ timerSched' = IF fires THEN NoteTimerSched(p, now) ELSE timerSched
       /\ last' = Observed(Ran("timer", p,
                               IF fires
                               THEN {Call(p, FinalChanges(p), "timer")}
                               ELSE {}))
       /\ UNCHANGED <<now, config, env, documentedFiles, modSinceReset>>

(***************************************************************************)
(* generateDocumentation after its await: the generator's outcome, the     *)
(* deliveries to the callback, and the continuation of the caller.         *)
(***************************************************************************)
(* What awaiting updateMarkdownForFile can produce.                        *)
GenOutcomes ==
    { [kind |-> "return", success |-> TRUE,
       outputPath |-> "docs/file-guide.md", error |-> NoStr],
      [kind |-> "return", success |-> FALSE,
       outputPath |-> NoStr, error |-> "generator error"],
      [kind |-> "throwError", success |-> FALSE,
       outputPath |-> NoStr, error |-> "thrown message"],
      [kind |-> "throwValue", success |-> FALSE,
       outputPath |-> NoStr, error |-> NoStr] }

SinkErrorMessage == "sink error"

(* error instanceof Error ? error.message : 'Unknown error'                *)
CaughtMessage(o) == IF o.kind = "throwError" THEN o.error ELSE "Unknown error"

SuccessResult(filePath, outputPath) ==
    [filePath |-> filePath, success |-> TRUE, outputPath |-> outputPath,
     error |-> NoStr]

FailureResult(filePath, error) ==
    [filePath |-> filePath, success |-> FALSE, outputPath |-> NoStr,
     error |-> error]

(* What the callback does when called: it returns, it throws on its first  *)
(* call only, or it throws on every call.                                  *)
SinkBehaviours == {"returns", "throwsOnce", "throws"}

(* The results handed to this.callback, in order.  A throw inside the try  *)
(* block, the callback's included, lands in the catch block, which calls   *)
(* the callback again.                                                     *)
Deliveries(g, o, sk) ==
    IF o.kind = "return"
    THEN << IF o.success THEN SuccessResult(g.path, o.outputPath)
            ELSE FailureResult(g.path, o.error) >>
         \o (IF sk # "returns" THEN <<FailureResult(g.path, SinkErrorMessage)>>
             ELSE <<>>)
    ELSE <<FailureResult(g.path, CaughtMessage(o))>>

EscapesUncaught(o, sk) ==
    IF o.kind = "return" THEN sk # "returns" ELSE TRUE

(* Whether an exception leaves generateDocumentation: only one thrown by   *)
(* the callback inside the catch block does.                               *)
Escapes(o, sk) ==
    IF o.kind = "return" THEN sk = "throws" ELSE sk # "returns"

(* fileChanges after the timer callback's await returned normally.         *)
FileChangesAfterGeneration(p) == MapSet(fileChanges, p, 0)

ResetsCounterAlways(g) == TRUE

(* Whether the caller's continuation resets the counter: the timer         *)
(* callback has fileChanges.set(path, 0) after its await, the Created      *)
(* branch and documentFile have no statement after theirs.                 *)
ResetsCounter(g) == g.origin = "timer"

Complete(g, o, sk) ==
    /\ BagIn(g, inflight)
    /\ inflight' = inflight (-) SetToBag({g})
    /\ documentedFiles' = IF o.kind = "return" /\ o.success
                          THEN documentedFiles \cup {g.path}
                          ELSE documentedFiles
    /\ fileChanges' = IF ResetsCounter(g) /\ ~Escapes(o, sk)
                      THEN FileChangesAfterGeneration(g.path)
                      ELSE fileChanges
    /\ last' = Observed([Ran("complete:" \o g.origin, g.path, {}) EXCEPT
                           !.outcome = o,
                           !.sink = Deliveries(g, o, sk),
                           !.sinkThrew = (sk # "returns"),
                           !.escaped = Escapes(o, sk),
                           !.afterReset = g.resetSince])
    /\ UNCHANGED <<now, config, env, lastDocumentedTime, pendingTimers, timers,
                   ghosts>>

(***************************************************************************)
(* documentFile(filePath).  t: the callback throws when called.            *)
(***************************************************************************)
ExcludedMessage == "File is excluded from auto-documentation"

ManualExcludedNever(p) == FALSE

ManualExcluded(p) == ShouldExclude(p)

DocumentFile(p, t) ==
    IF ManualExcluded(p)
    THEN /\ last' = Observed([Ran("documentFile", p, {}) EXCEPT
                                !.sink = <<FailureResult(p, ExcludedMessage)>>,
                                !.sinkThrew = t,
                                !.escaped = t])
         /\ UNCHANGED <<now, config, env, ctrl, timers, inflight, ghosts>>
    ELSE /\ CanStart
         /\ ~t
         /\ inflight' = Started(Pending(p, "manual"))
         /\ lastSched' = NoteSched(p)
         /\ last' = Observed(Ran("documentFile", p,
                                 {Call(p, OrElse(MapGet(fileChanges, p), 0),
                                       "manual")}))
         /\ UNCHANGED <<now, config, env, ctrl, timers, timerSched, modSinceReset>>

(***************************************************************************)
(* resetFileTracking(filePath)                                             *)
(***************************************************************************)
(* History: the pending calls of the paths ps have seen a reset.           *)
MarkReset(ps) ==
    LET mark(g) == IF g.path \in ps /\ (Tracks("stamp") \/ Tracks("mark"))
                   THEN [g EXCEPT !.resetSince = TRUE] ELSE g
        count(h) == LET same == {g \in BagToSet(inflight) : mark(g) = h}
                        RECURSIVE sum(_)
                        sum(S) == IF S = {} THEN 0
                                  ELSE LET x == CHOOSE y \in S : TRUE
                                       IN inflight[x] + sum(S \ {x})
                    IN sum(same)
    IN [h \in {mark(g) : g \in BagToSet(inflight)} |-> count(h)]

TimersKeptOnReset(p) == timers

InflightDroppedOnReset(ps) ==
    LET kept == {g \in BagToSet(inflight) : g.path \notin ps}
    IN [g \in kept |-> inflight[g]]

(* The calls in flight after a reset of the paths ps: neither reset method *)
(* has a statement that reaches a call awaiting the generator.             *)
InflightAfterReset(ps) == MarkReset(ps)

(* The timeouts left after resetFileTracking cleared the pending timer.    *)
TimersAfterReset(p) ==
    IF MapHas(pendingTimers, p) THEN ClearTimeout(timers, pendingTimers[p])
    ELSE timers

FileChangesClearedOnReset(p) == EmptyMap

(* fileChanges after resetFileTracking: this.fileChanges.delete(filePath).  *)
FileChangesAfterReset(p) == MapDelete(fileChanges, p)

ResetFileTracking(p) ==
    /\ fileChanges' = FileChangesAfterReset(p)
    /\ lastDocumentedTime' = MapDelete(lastDocumentedTime, p)
    /\ timers' = TimersAfterReset(p)
    /\ pendingTimers' = MapDelete(pendingTimers, p)
    /\ inflight' = InflightAfterReset({p})
    /\ timerSched' = NoteTimerSched(p, Undefined)
    /\ modSinceReset' = NoteModified(p, FALSE)
    /\ last' = Observed([Ran("resetFileTracking", p, {}) EXCEPT
                           !.cleared = Cardinality(timers \ TimersAfterReset(p))])
    /\ UNCHANGED <<now, config, env, documentedFiles, lastSched>>

(* getFileChanges(filePath)                                                *)
GetFileChanges(filePath) == OrElse(MapGet(fileChanges, filePath), 0)

(***************************************************************************)
(* reset()                                                                 *)
(***************************************************************************)
TimersKeptOnGlobalReset == timers

(* The timeouts left after reset() cleared every tracked timer.            *)
TimersAfterGlobalReset ==
    {t \in timers : t.id \notin MapValues(pendingTimers)}

Reset ==
    /\ timers' = TimersAfterGlobalReset
    /\ fileChanges' = EmptyMap
    /\ documentedFiles' = {}
    /\ lastDocumentedTime' = EmptyMap
    /\ pendingTimers' = EmptyMap
    /\ inflight' = InflightAfterReset(Paths)
    /\ timerSched' = [p \in Paths |-> Undefined]
    /\ modSinceReset' = [p \in Paths |-> FALSE]
    /\ last' = Observed([Ran("reset", NoPath, {}) EXCEPT
                           !.cleared = Cardinality(timers \ TimersAfterGlobalReset)])
    /\ UNCHANGED <<now, config, env, lastSched>>

(***************************************************************************)
(* Time passes.  A timeout fires when it is due: the clock does not move   *)
(* past the due time of a live timeout.                                    *)
(***************************************************************************)
Tick ==
    /\ now < MaxTime
    /\ \A t \in timers : t.due > now
    /\ now' = now + 1
    /\ last' = Observed(Ran("tick", NoPath, {}))
    /\ UNCHANGED <<config, env, ctrl, timers, inflight, ghosts>>

Next ==
    \/ \E p \in env.paths : DirectoryCreated(p) /\ UNCHANGED <<burst, fw>>
    \/ \E p \in env.paths, l \in LineVals : FileCreated(p, l) /\ UNCHANGED <<burst, fw>>
    \/ \E p \in env.paths, l \in LineVals :
          FileModified(p, l) /\ UNCHANGED <<burst, fw>>
    \/ \E t \in timers : TimerFire(t) /\ UNCHANGED <<burst, fw>>
    \/ \E g \in BagToSet(inflight), o \in GenOutcomes, sk \in SinkBehaviours :
          Complete(g, o, sk) /\ UNCHANGED <<burst, fw>>
    \/ \E p \in env.paths, t \in BOOLEAN : DocumentFile(p, t) /\ UNCHANGED <<burst, fw>>
    \/ \E p \in env.paths : ResetFileTracking(p) /\ UNCHANGED <<burst, fw>>
    \/ Reset /\ UNCHANGED <<burst, fw>>
    \/ Tick /\ UNCHANGED <<burst, fw>>

(* Main specification: one eligible path and one documentation file; no   *)
(* history is kept.                                                        *)
Spec == Init /\ [][Next]_vars

(* The same, observing the event handlers.                                 *)
InitEvents == InitWith(Configs, SpecPaths, {"file_created", "file_modified"}, {})
SpecEvents == InitEvents /\ [][Next]_vars

(* The same, observing the manual trigger and the single-path reset.       *)
InitManual ==
    InitWith(Configs, SpecPaths, {"documentFile", "resetFileTracking"},
             {"reset"})
SpecManual == InitManual /\ [][Next]_vars

(* The same, observing the completions of the generator calls.             *)
Completions == {"complete:timer", "complete:created", "complete:manual"}
DoneConfigs == {ConfigOf(FALSE, Absent, 2, 1)}
InitDone == InitWith(DoneConfigs, SpecPaths, Completions, {})
SpecDone == InitDone /\ [][Next]_vars

(* Created and Modified events over every sample path, with                *)
(* generateOnCreate set and the .md extension configured; no manual        *)
(* trigger and no reset.                                                   *)
FilterConfigs == {ConfigOf(TRUE, Present(ExtConfigsWithMd), 2, 1)}
InitFilter ==
    InitWith(FilterConfigs, {PathA} \cup ExcludedSamples,
             {"file_created", "file_modified"}, {})
NextEvents ==
    \/ \E p \in env.paths, l \in LineVals : FileCreated(p, l) /\ UNCHANGED <<burst, fw>>
    \/ \E p \in env.paths, l \in LineVals :
          FileModified(p, l) /\ UNCHANGED <<burst, fw>>
    \/ \E t \in timers : TimerFire(t) /\ UNCHANGED <<burst, fw>>
    \/ \E g \in BagToSet(inflight), o \in GenOutcomes, sk \in SinkBehaviours :
          Complete(g, o, sk) /\ UNCHANGED <<burst, fw>>
    \/ Tick /\ UNCHANGED <<burst, fw>>

SpecFilter == InitFilter /\ [][NextEvents]_vars

(* One path, keeping the schedule times of the dispatches.                 *)
InitTiming == InitWith(Configs, {PathA}, {}, {"sched", "stamp"})
SpecTiming == InitTiming /\ [][Next]_vars

(* Two eligible paths, with Modified events that report changed lines,     *)
(* timer firings, completions, manual triggers and single-path resets, up  *)
(* to time MaxPairTime, observing the single-path reset.                   *)
PairConfigs == {ConfigOf(FALSE, Absent, 2, 1)}
PairLines == {1, 2}
InitPair == InitWith(PairConfigs, {PathA, PathB}, {"resetFileTracking"}, {})
NextPair ==
    \/ \E p \in env.paths, l \in PairLines :
          FileModified(p, l) /\ UNCHANGED <<burst, fw>>
    \/ \E t \in timers : TimerFire(t) /\ UNCHANGED <<burst, fw>>
    \/ \E g \in BagToSet(inflight), o \in GenOutcomes, sk \in SinkBehaviours :
          Complete(g, o, sk) /\ UNCHANGED <<burst, fw>>
    \/ \E p \in env.paths : DocumentFile(p, FALSE) /\ UNCHANGED <<burst, fw>>
    \/ \E p \in env.paths : ResetFileTracking(p) /\ UNCHANGED <<burst, fw>>
    \/ now < MaxPairTime /\ Tick /\ UNCHANGED <<burst, fw>>

SpecPair == InitPair /\ [][NextPair]_vars

(* Two eligible paths, with Modified events that report changed lines,     *)
(* timer firings, completions, manual triggers and global resets, up to    *)
(* time MaxPairTime, observing the global reset and keeping whether a      *)
(* Modified event was handled since the last reset.                        *)
InitReset == InitWith(PairConfigs, {PathA, PathB}, {"reset"}, {"reset"})
NextReset ==
    \/ \E p \in env.paths, l \in PairLines :
          FileModified(p, l) /\ UNCHANGED <<burst, fw>>
    \/ \E t \in timers : TimerFire(t) /\ UNCHANGED <<burst, fw>>
    \/ \E g \in BagToSet(inflight), o \in GenOutcomes, sk \in SinkBehaviours :
          Complete(g, o, sk) /\ UNCHANGED <<burst, fw>>
    \/ \E p \in env.paths : DocumentFile(p, FALSE) /\ UNCHANGED <<burst, fw>>
    \/ Reset /\ UNCHANGED <<burst, fw>>
    \/ now < MaxPairTime /\ Tick /\ UNCHANGED <<burst, fw>>

SpecReset == InitReset /\ [][NextReset]_vars

(* One path, observing the completions and                                 *)
(* keeping, for each call in flight, whether its path was reset since.     *)
InitCancel ==
    InitWith(DoneConfigs, {PathA}, Completions, {"mark"})
SpecCancel == InitCancel /\ [][Next]_vars

(***************************************************************************)
(* Bursts.  Any execution on one eligible path, in which one sequence of   *)
(* Modified events is followed: it starts at a Modified event that finds   *)
(* the path not cooling down and without a pending timer, every later      *)
(* event of it arrives less than debounceMs after the previous one, and    *)
(* from its start the path sees no other event, manual trigger or reset.   *)
(* burst keeps the sum of the sequence's linesChanged, the time of its     *)
(* latest event, the number of timer dispatches since its start, the       *)
(* linesChanged of the latest of them, and whether the path was idle at    *)
(* the start (nothing accumulated, no timer-initiated generation in        *)
(* flight).                                                                *)
(***************************************************************************)
Followed(p) == burst[p].lastAt # Undefined

LiveTimers(p) == {t \in timers : t.path = p}

TimerGenerationInFlight(p) ==
    \E g \in BagToSet(inflight) : g.path = p /\ g.origin = "timer"

BurstEvent(p, l) ==
    IF ~Followed(p)
    THEN /\ ~IsInCooldown(p)
         /\ LiveTimers(p) = {}
         /\ burst' = [burst EXCEPT ![p] =
                        [sum |-> OrElse(l, 0), lastAt |-> now, n |-> 0,
                         lines |-> Undefined,
                         idle |-> /\ Falsy(MapGet(fileChanges, p))
                                  /\ ~TimerGenerationInFlight(p)]]
    ELSE /\ now - burst[p].lastAt < debounceMs
         /\ burst' = [burst EXCEPT ![p].sum = @ + OrElse(l, 0),
                                   ![p].lastAt = now]

BurstDispatch(p) ==
    burst' = IF last'.started = {} \/ ~Followed(p) THEN burst
             ELSE [burst EXCEPT
                     ![p].n = @ + 1,
                     ![p].lines = (CHOOSE c \in last'.started : TRUE).linesChanged]

NextBurst ==
    \/ \E p \in env.paths, l \in LineVals :
          ~Followed(p) /\ FileCreated(p, l) /\ UNCHANGED <<burst, fw>>
    \/ \E p \in env.paths, l \in LineVals :
          ~Followed(p) /\ FileModified(p, l) /\ UNCHANGED <<burst, fw>>
    \/ \E p \in env.paths, l \in LineVals :
          FileModified(p, l) /\ BurstEvent(p, l) /\ UNCHANGED fw
    \/ \E t \in timers : TimerFire(t) /\ BurstDispatch(t.path) /\ UNCHANGED fw
    \/ \E g \in BagToSet(inflight), o \in GenOutcomes, sk \in SinkBehaviours :
          Complete(g, o, sk) /\ UNCHANGED <<burst, fw>>
    \/ \E p \in env.paths, t \in BOOLEAN :
          ~Followed(p) /\ DocumentFile(p, t) /\ UNCHANGED <<burst, fw>>
    \/ \E p \in env.paths :
          ~Followed(p) /\ ResetFileTracking(p) /\ UNCHANGED <<burst, fw>>
    \/ (\A p \in env.paths : ~Followed(p)) /\ Reset /\ UNCHANGED <<burst, fw>>
    \/ Tick /\ UNCHANGED <<burst, fw>>

InitBurst == InitWith(BurstConfigs, {PathA}, {"timer"}, {})
SpecBurst == InitBurst /\ [][NextBurst]_vars

(***************************************************************************)
(* C1 (as amended).  Debounce: in a followed sequence of Modified events   *)
(* that starts on an idle path, once the summed linesChanged has reached   *)
(* changeThreshold either exactly one timer is pending, due debounceMs     *)
(* after the latest event, and no dispatch was made, or no timer is        *)
(* pending and exactly one dispatch was made, with the full sum.           *)
(***************************************************************************)
BurstOutcome(p) ==
    LET b == burst[p]
    IN /\ b.n <= 1
       /\ b.sum >= config.changeThreshold =>
            \/ /\ b.n = 0
               /\ \E t \in LiveTimers(p) :
                     /\ LiveTimers(p) = {t}
                     /\ t.due = b.lastAt + debounceMs
            \/ /\ b.n = 1
               /\ b.lines = b.sum
               /\ LiveTimers(p) = {}

C1_DebounceFromIdle ==
    \A p \in env.paths : Followed(p) /\ burst[p].idle => BurstOutcome(p)

C1_Witness ==
    \E p \in env.paths :
        /\ Followed(p) /\ burst[p].idle
        /\ burst[p].n = 1
        /\ burst[p].lines = MaxAcc
        /\ inflight # EmptyBag

(* C1 (as stated): the same of every followed sequence, idle at its start  *)
(* or not.                                                                 *)
C1_DebounceAnySequence ==
    \A p \in env.paths : Followed(p) => BurstOutcome(p)

(***************************************************************************)
(* Steps.  A step dispatches for p when it adds a generator call for p to  *)
(* the calls in flight.                                                    *)
(***************************************************************************)
Origins == {"timer", "created", "manual"}

DispatchStep(p, origins) ==
    /\ BagCardinality(inflight') = BagCardinality(inflight) + 1
    /\ \E g \in BagToSet(inflight' (-) inflight) :
          g.path = p /\ g.origin \in origins

UnresetTimerCalls(p) ==
    {g \in BagToSet(inflight) :
        g.path = p /\ g.origin = "timer" /\ ~g.resetSince}

C4_ResetCancelsTimer ==
    /\ last.op = "resetFileTracking" =>
         /\ LiveTimers(last.path) = {}
         /\ ~MapHas(pendingTimers, last.path)
    /\ \A p \in env.paths : LiveTimers(p) # {} => modSinceReset[p]

C4_Witness ==
    /\ last.op = "resetFileTracking"
    /\ last.cleared = 1
    /\ last.path = PathA

C6_OneLiveTimer ==
    \A p \in env.paths :
        /\ Cardinality(LiveTimers(p)) <= 1
        /\ \A t \in LiveTimers(p) :
              MapHas(pendingTimers, p) /\ pendingTimers[p] = t.id

C6_Witness ==
    /\ last.op = "file_modified"
    /\ last.cleared = 1
    /\ Cardinality(LiveTimers(last.path)) = 1

(***************************************************************************)
(* C7.  Handling a Created or Modified event for a path under an excluded  *)
(* directory, a .md path, a path whose extension has no configured detail  *)
(* level or a path without extension starts no generator call and leaves   *)
(* the accumulated counts, documented markers, cooldown timestamps,        *)
(* tracked handles, live timers and calls in flight unchanged.             *)
(***************************************************************************)
C7_ExcludedEventsIgnored ==
    [][last'.op \in {"file_created", "file_modified"}
         /\ last'.path \in ExcludedSamples
         => /\ last'.started = {}
            /\ UNCHANGED <<ctrl, timers, inflight>>]_vars

C7_Witness ==
    /\ last.op = "file_modified"
    /\ last.path = PathInDist
    /\ MapGet(fileChanges, PathA) >= config.changeThreshold
    /\ LiveTimers(PathA) # {}
    /\ config.generateOnCreate

(***************************************************************************)
(* C8.  With generateOnCreate set, handling a Created event for the        *)
(* eligible path starts exactly one generator call for it, whatever the    *)
(* reported line count and whether or not the path is cooling down, and    *)
(* starts no timer.                                                        *)
(***************************************************************************)
C8_CreatedDispatches ==
    [][last'.op = "file_created" /\ last'.path = PathA
         /\ config.generateOnCreate
         => /\ DispatchStep(PathA, {"created"})
            /\ \E c \in last'.started :
                  last'.started = {c} /\ c.path = PathA /\ c.origin = "created"
            /\ timers' = timers]_vars

C8_Witness ==
    /\ last.op = "file_created"
    /\ last.path = PathA
    /\ last.started # {}
    /\ IsInCooldown(PathA)
    /\ MapGet(fileChanges, PathA) >= config.changeThreshold

C10_DispatchBoundary ==
    last.op \in Completions =>
        /\ Len(last.sink) >= 1
        /\ last.sink[1].filePath = last.path
        /\ IF last.outcome.kind = "return" /\ last.outcome.success
           THEN /\ last.sink[1].success
                /\ last.sink[1].outputPath = last.outcome.outputPath
           ELSE /\ ~last.sink[1].success
                /\ last.sink[1].error # NoStr
        /\ last.escaped => last.sinkThrew

C10_Witness ==
    /\ last.op = "complete:timer"
    /\ last.outcome.kind = "throwValue"
    /\ ~last.escaped
    /\ last.sink = <<FailureResult(last.path, "Unknown error")>>

(***************************************************************************)
(* C11.  Every completed generator call has handed the callback exactly    *)
(* one result, whatever the generator's outcome and whatever the callback  *)
(* does when called.                                                       *)
(***************************************************************************)
C11_SinkCalledOnce ==
    last.op \in Completions => Len(last.sink) = 1

(***************************************************************************)
(* C12.  A generator call leaves the calls in flight only by completing:   *)
(* every other step, resetFileTracking and reset included, keeps the       *)
(* number of calls in flight and their paths and origins.  A call whose    *)
(* path was reset while it was in flight completes like any other: the     *)
(* callback is handed a result for its path, successful exactly when the   *)
(* generator returned success.                                             *)
(***************************************************************************)
C12_ResetKeepsInFlight ==
    /\ [](last.op \in Completions /\ last.afterReset =>
             /\ Len(last.sink) >= 1
             /\ last.sink[1].filePath = last.path
             /\ last.sink[1].success
                  = (last.outcome.kind = "return" /\ last.outcome.success))
    /\ [][last'.op \notin Completions =>
             /\ BagCardinality(inflight') >= BagCardinality(inflight)
             /\ {<<g.path, g.origin>> : g \in BagToSet(inflight)}
                  \subseteq {<<g.path, g.origin>> : g \in BagToSet(inflight')}]_vars

C12_Witness ==
    /\ last.op = "complete:timer"
    /\ last.afterReset
    /\ last.sink = <<SuccessResult(last.path, last.outcome.outputPath)>>
    /\ ~MapHas(lastDocumentedTime, last.path)

(***************************************************************************)
(* C13.  A resetFileTracking(path) step leaves the path with               *)
(* getFileChanges 0, without cooldown timestamp (not cooling down),        *)
(* without tracked handle and without live timer, and leaves the           *)
(* accumulated count, the cooldown timestamp, the tracked handle and the   *)
(* live timers of every other path as they were.                           *)
(***************************************************************************)
PathState(p) ==
    <<MapGet(fileChanges, p), MapGet(lastDocumentedTime, p),
      MapGet(pendingTimers, p), LiveTimers(p)>>

C13_ResetFrame ==
    [][\A p \in env.paths :
          last'.op = "resetFileTracking" /\ last'.path = p =>
             /\ GetFileChanges(p)' = 0
             /\ ~MapHas(fileChanges', p)
             /\ ~MapHas(lastDocumentedTime', p)
             /\ ~IsInCooldown(p)'
             /\ ~MapHas(pendingTimers', p)
             /\ LiveTimers(p)' = {}
             /\ \A q \in env.paths \ {p} : PathState(q)' = PathState(q)]_vars

C13_Witness ==
    /\ last.op = "resetFileTracking"
    /\ last.path = PathA
    /\ last.cleared = 1
    /\ GetFileChanges(PathB) > 0
    /\ IsInCooldown(PathB)

(***************************************************************************)
(* C14.  reset() leaves no live timer, no accumulated count, no cooldown   *)
(* timestamp, no tracked handle and no documented marker, for any path;    *)
(* afterwards a debounce timer dispatches for a path only if a Modified    *)
(* event for it was handled since the reset.                               *)
(***************************************************************************)
C14_GlobalReset ==
    /\ [](last.op = "reset" =>
             /\ timers = {}
             /\ fileChanges = EmptyMap
             /\ lastDocumentedTime = EmptyMap
             /\ pendingTimers = EmptyMap
             /\ documentedFiles = {})
    /\ [][\A p \in env.paths :
             DispatchStep(p, {"timer"}) => modSinceReset[p]]_vars

C14_Witness ==
    /\ last.op = "reset"
    /\ last.cleared = 2
    /\ inflight # EmptyBag

(***************************************************************************)
(* Debounce and cooldown timing on one path.  Either any execution of      *)
(* events, timer firings, completions, manual triggers and single-path     *)
(* resets with small delays, or the worked scenario with its literal       *)
(* numbers, in which only the scripted Modified events, the timer, the     *)
(* completions and the clock act.  burst keeps, for the path, the linesChanged of the latest   *)
(* Modified event, the time of the latest Modified event handled with an   *)
(* accumulated total >= changeThreshold and, in the scenario, the sum of   *)
(* the events delivered and the number of timer dispatches.                *)
(***************************************************************************)
InScenario == Tracks("scenario")

ScenarioStart == 1

RECURSIVE ScenarioSum(_)
ScenarioSum(i) ==
    IF i = 0 THEN 0 ELSE ScenarioSum(i - 1) + Scenario.events[i].lines

(* The scripted events not delivered yet.                                  *)
ScenarioLeft ==
    {i \in DOMAIN Scenario.events : burst[PathA].sum < ScenarioSum(i)}

NoteEvent(p, l) ==
    burst' = [burst EXCEPT
                ![p].lines = OrElse(l, 0),
                ![p].lastAt = IF TotalChanges(p, l) >= config.changeThreshold
                              THEN now ELSE @,
                ![p].sum = IF InScenario THEN @ + OrElse(l, 0) ELSE @]

NoteDispatch(p) ==
    burst' = IF InScenario /\ last'.started # {}
             THEN [burst EXCEPT ![p].n = @ + 1] ELSE burst

ScenarioEvent(i) ==
    /\ i \in ScenarioLeft
    /\ \A j \in ScenarioLeft : i <= j
    /\ now = ScenarioStart + Scenario.events[i].at
    /\ FileModified(PathA, Scenario.events[i].lines)
    /\ NoteEvent(PathA, Scenario.events[i].lines)

(* The clock of the scenario: it does not move past a due timeout or a     *)
(* scripted event.                                                         *)
Advance ==
    /\ now < ScenarioStart + Scenario.end
    /\ \A t \in timers : t.due > now
    /\ \A i \in ScenarioLeft : ScenarioStart + Scenario.events[i].at > now
    /\ now' = now + Scenario.step
    /\ last' = Observed(Ran("tick", NoPath, {}))
    /\ UNCHANGED <<config, env, ctrl, timers, inflight, ghosts>>

NextDebounce ==
    \/ \E p \in env.paths, l \in LineVals :
          ~InScenario /\ FileModified(p, l) /\ NoteEvent(p, l) /\ UNCHANGED fw
    \/ \E i \in DOMAIN Scenario.events : InScenario /\ ScenarioEvent(i) /\ UNCHANGED fw
    \/ \E t \in timers : TimerFire(t) /\ NoteDispatch(t.path) /\ UNCHANGED fw
    \/ \E g \in BagToSet(inflight), o \in GenOutcomes, sk \in SinkBehaviours :
          Complete(g, o, sk) /\ UNCHANGED <<burst, fw>>
    \/ \E p \in env.paths, l \in LineVals :
          ~InScenario /\ FileCreated(p, l) /\ UNCHANGED <<burst, fw>>
    \/ \E p \in env.paths :
          ~InScenario /\ DocumentFile(p, FALSE) /\ UNCHANGED <<burst, fw>>
    \/ \E p \in env.paths :
          ~InScenario /\ ResetFileTracking(p) /\ UNCHANGED <<burst, fw>>
    \/ ~InScenario /\ Tick /\ UNCHANGED <<burst, fw>>
    \/ InScenario /\ Advance /\ UNCHANGED <<burst, fw>>

InitDebounce ==
    \/ InitWith(PairConfigs, {PathA}, {"file_modified", "timer"}, {})
    \/ InitWith({Scenario.config}, {PathA}, {"file_modified", "timer"},
                {"scenario"})
SpecDebounce == InitDebounce /\ [][NextDebounce]_vars

(***************************************************************************)
(* C15.  A path that is cooling down has no live timer; handling a         *)
(* Modified event for a path that is cooling down adds the event's         *)
(* linesChanged to the accumulated count and leaves the path without       *)
(* timer.  In the scenario, once the dispatch is made no timer is live up  *)
(* to the end of the scenario, past 58000 ms, and there is no second       *)
(* dispatch.                                                               *)
(***************************************************************************)
C15_NoTimerWhileCooling ==
    /\ [](\A p \in env.paths : IsInCooldown(p) => LiveTimers(p) = {})
    /\ [](InScenario /\ burst[PathA].n >= 1 =>
             burst[PathA].n = 1 /\ LiveTimers(PathA) = {})
    /\ [][\A p \in env.paths :
             last'.op = "file_modified" /\ last'.path = p /\ IsInCooldown(p)
               => /\ GetFileChanges(p)' = GetFileChanges(p) + burst'[p].lines
                  /\ LiveTimers(p)' = {}]_vars

C15_Witness ==
    /\ InScenario
    /\ last.op = "file_modified"
    /\ now = ScenarioStart + 29000
    /\ GetFileChanges(PathA) = 95
    /\ IsInCooldown(PathA)

(***************************************************************************)
(* C16.  A live timer of a path is due debounceMs after the latest         *)
(* Modified event of the path handled with an accumulated total >=         *)
(* changeThreshold, and a timer dispatches exactly then.  In the scenario  *)
(* there is no dispatch before 28000 ms, and exactly one from then on,     *)
(* made at 28000 ms with linesChanged 45.                                  *)
(***************************************************************************)
C16_DebounceTiming ==
    /\ [](\A p \in env.paths : \A t \in LiveTimers(p) :
             t.due = burst[p].lastAt + debounceMs)
    /\ [](InScenario =>
             /\ burst[PathA].n <= 1
             /\ now < ScenarioStart + 28000 => burst[PathA].n = 0
             /\ now > ScenarioStart + 28000 => burst[PathA].n = 1)
    /\ [][\A p \in env.paths :
             DispatchStep(p, {"timer"}) =>
               /\ now = burst[p].lastAt + debounceMs
               /\ InScenario =>
                    /\ now = ScenarioStart + 28000
                    /\ last'.started = {Call(PathA, 45, "timer")}]_vars

C16_Witness ==
    /\ InScenario
    /\ last.op = "timer"
    /\ last.started # {}
    /\ burst[PathA].n = 1
    /\ burst[PathA].sum = 45

(***************************************************************************)
(* C17.  Path independence: no step changes the accumulated count, the     *)
(* cooldown timestamp, the tracked handle or the live timers of more than  *)
(* one path, and a step that dispatches for a path changes them for no     *)
(* other path.  (That calls for two paths are in flight together is the    *)
(* witness.)                                                               *)
(***************************************************************************)
C17_PathIndependence ==
    [][/\ \E p \in env.paths :
             \A q \in env.paths \ {p} : PathState(q)' = PathState(q)
       /\ \A p \in env.paths :
             DispatchStep(p, Origins) =>
                \A q \in env.paths \ {p} : PathState(q)' = PathState(q)]_vars

C17_Witness ==
    /\ \E g \in BagToSet(inflight) : g.path = PathA /\ g.origin = "timer"
    /\ \E g \in BagToSet(inflight) : g.path = PathB /\ g.origin = "timer"
    /\ IsInCooldown(PathA) /\ IsInCooldown(PathB)
    /\ GetFileChanges(PathA) # GetFileChanges(PathB)

(***************************************************************************)
(* FileWatcher.calculateLineChanges(oldContent, newContent).  Contents are *)
(* sequences of one-character strings.                                     *)
(***************************************************************************)
Newline == "\n"

ContentAlphabet == {"a", "b", Newline}

Contents ==
    UNION {[1..k -> ContentAlphabet] : k \in 0..MaxContentLen}

RECURSIVE SplitLines(_)
(* content.split('\n'): the pieces between the newlines, the empty ones    *)
(* included; a content without newline is one piece.                       *)
SplitLines(s) ==
    LET at == {i \in 1..Len(s) : s[i] = Newline}
    IN IF at = {} THEN <<s>>
       ELSE LET i == CHOOSE x \in at : \A y \in at : x <= y
            IN <<SubSeq(s, 1, i - 1)>> \o SplitLines(SubSeq(s, i + 1, Len(s)))

RECURSIVE ModifiedUpTo(_, _, _)

ModifiedNone(oldLines, newLines, n) == 0

ModifiedAll(oldLines, newLines, n) == n

(* The loop over i < minLength counting oldLines[i] !== newLines[i].       *)
ModifiedUpTo(oldLines, newLines, n) ==
    IF n = 0 THEN 0
    ELSE ModifiedUpTo(oldLines, newLines, n - 1)
           + (IF oldLines[n] # newLines[n] THEN 1 ELSE 0)

TotalWithoutDeleted(modified, added, deleted) == modified + added

(* const total = modified + added + deleted                                *)
TotalOf(modified, added, deleted) == modified + added + deleted

CalculateLineChanges(oldContent, newContent) ==
    LET oldLines == SplitLines(oldContent)
        newLines == SplitLines(newContent)
        oldLength == Len(oldLines)
        newLength == Len(newLines)
        added == IF newLength > oldLength THEN newLength - oldLength ELSE 0
        deleted == IF newLength > oldLength THEN 0
                   ELSE IF oldLength > newLength THEN oldLength - newLength
                   ELSE 0
        minLength == IF oldLength < newLength THEN oldLength ELSE newLength
        modified == ModifiedUpTo(oldLines, newLines, minLength)
    IN [total |-> TotalOf(modified, added, deleted),
        added |-> added, deleted |-> deleted]

(* The line diff on its own: two contents are drawn and the function is    *)
(* applied to them.                                                        *)
NoResult == [total |-> Undefined, added |-> Undefined, deleted |-> Undefined]

InitDiff ==
    /\ InitController(PairConfigs, {PathA}, {}, {})
    /\ fw \in {[mode |-> "diff", oldContent |-> o, newContent |-> n,
                result |-> NoResult] : o \in Contents, n \in Contents}

Diff ==
    /\ fw.mode = "diff"
    /\ fw.result = NoResult
    /\ fw' = [fw EXCEPT
                !.result = CalculateLineChanges(fw.oldContent, fw.newContent)]
    /\ UNCHANGED <<now, config, env, ctrl, timers, inflight, last, ghosts,
                   burst>>

SpecDiff == InitDiff /\ [][Diff]_vars

(***************************************************************************)
(* Properties of the line diff.                                            *)
(***************************************************************************)
Diffed == fw.mode = "diff" /\ fw.result # NoResult

Max0(x) == IF x > 0 THEN x ELSE 0

Min2(x, y) == IF x < y THEN x ELSE y

(* C19: for all old and new contents, with oldLines and newLines the       *)
(* arrays obtained by splitting on newline, the result has                 *)
(* added = max(0, newLen - oldLen), deleted = max(0, oldLen - newLen) and  *)
(* total = added + deleted + the number of indices below min(oldLen,       *)
(* newLen) at which the two arrays differ; the comparison is positional.   *)
C19_LineDiff ==
    Diffed =>
        LET oldLines == SplitLines(fw.oldContent)
            newLines == SplitLines(fw.newContent)
            oldLen == Len(oldLines)
            newLen == Len(newLines)
            differing == {i \in 1..Min2(oldLen, newLen) :
                            oldLines[i] # newLines[i]}
        IN /\ fw.result.added = Max0(newLen - oldLen)
           /\ fw.result.deleted = Max0(oldLen - newLen)
           /\ fw.result.total = fw.result.added + fw.result.deleted
                                  + Cardinality(differing)

(* A line inserted in front of "a": the line "a" only moved, and counts.   *)
C19_Witness ==
    /\ Diffed
    /\ fw.oldContent = <<"a">>
    /\ fw.newContent = <<Newline, "a">>
    /\ fw.result = [total |-> 2, added |-> 1, deleted |-> 0]


IsPrefix(s, t) == Len(s) <= Len(t) /\ SubSeq(t, 1, Len(s)) = s

Appended(old, new) == SubSeq(new, Len(old) + 1, Len(new))

NewlineCount(s) == Cardinality({i \in 1..Len(s) : s[i] = Newline})

EndsWithNewline(s) == Len(s) > 0 /\ s[Len(s)] = Newline

(* The lines of a text: every line up to its newline, and the remainder    *)
(* after the last newline when there is one.                               *)
TextLineCount(s) ==
    NewlineCount(s) + (IF s = <<>> \/ EndsWithNewline(s) THEN 0 ELSE 1)

(* new is old followed by whole lines: written directly after old when old *)
(* is empty or ends with a newline, after a newline otherwise.             *)
LinesAppended(old, new) ==
    /\ IsPrefix(old, new)
    /\ Len(new) > Len(old)
    /\ old = <<>> \/ EndsWithNewline(old) \/ new[Len(old) + 1] = Newline

(* new is old, a newline, and k lines joined by newlines.                  *)
JoinedAfter(old, new) ==
    /\ IsPrefix(old, new)
    /\ Len(new) > Len(old)
    /\ new[Len(old) + 1] = Newline

(* new is old, itself empty or ending with a newline, followed by k lines  *)
(* each ended by its newline.                                              *)
WrittenAfter(old, new) ==
    /\ IsPrefix(old, new)
    /\ Len(new) > Len(old)
    /\ old = <<>> \/ EndsWithNewline(old)
    /\ EndsWithNewline(new)

(* C20 as stated: diffing old content against the same content with k >= 1 *)
(* lines appended after it yields {total: k, added: k, deleted: 0},        *)
(* whether or not the old content ends with a newline.                     *)
C20_AppendedLines ==
    Diffed /\ LinesAppended(fw.oldContent, fw.newContent) =>
        LET k == TextLineCount(fw.newContent) - TextLineCount(fw.oldContent)
        IN k >= 1 => fw.result = [total |-> k, added |-> k, deleted |-> 0]

(* C20: when the new content is the old content, a newline, and k >= 1     *)
(* lines joined by newlines, the result is {total: k, added: k, deleted:   *)
(* 0}, whether or not the old content ends with a newline.  When the old   *)
(* content is empty or ends with a newline and k >= 1 newline-terminated   *)
(* lines are written directly after it, added is k, deleted is 0, and      *)
(* total is k + 1 if the first written line is not empty and k if it is:   *)
(* the empty piece after the old content's last newline is compared with   *)
(* the first written line.                                                 *)
C20_JoinedOrWritten ==
    Diffed =>
        LET old == fw.oldContent
            new == fw.newContent
            rest == Appended(old, new)
        IN /\ JoinedAfter(old, new) =>
                LET k == NewlineCount(rest)
                IN fw.result = [total |-> k, added |-> k, deleted |-> 0]
           /\ WrittenAfter(old, new) =>
                LET k == NewlineCount(rest)
                IN fw.result =
                     [total |-> k + (IF rest[1] # Newline THEN 1 ELSE 0),
                      added |-> k, deleted |-> 0]

(* The line b written after "a\n": one line added, two lines changed.      *)
C20_Witness ==
    /\ Diffed
    /\ fw.oldContent = <<"a", Newline>>
    /\ fw.newContent = <<"a", Newline, "b", Newline>>
    /\ fw.result = [total |-> 2, added |-> 1, deleted |-> 0]


(***************************************************************************)
(* FileWatcher: the fs.watch listener of watchDirectory.  Every native     *)
(* notification starts one run of the async listener, which is suspended   *)
(* at its await of stat and at its await of readFile; runs for the same    *)
(* path overlap, and the awaited operations complete in any order.         *)
(*   fw.files         the file system: path -> content of the files there  *)
(*   fw.unreadable    the files there whose readFile throws                *)
(*   fw.unchanged     the files whose content is as the watcher last read  *)
(*                    it                                                   *)
(*   fw.baseline      the files scanDirectory found                        *)
(*   fw.knownFiles    this.knownFiles                                      *)
(*   fw.fileContents  this.fileContents                                    *)
(*   fw.handlers      the suspended runs of the listener; n numbers the    *)
(*                    notifications in the order they occurred             *)
(*   fw.delivered     the events passed to this.callback, in call order    *)
(***************************************************************************)
WatchPaths == {PathA}

WatchContents == {<<>>, <<"a">>, <<"a", Newline, "b">>}

Restrict(m, ks) == [k \in (DOMAIN m) \cap ks |-> m[k]]

(* After start(): scanDirectory has added every file present to knownFiles *)
(* and stored the content of those it could read.                          *)
ScannedWith(files, unreadable) ==
    [mode |-> "watch",
     files |-> files,
     unreadable |-> unreadable,
     unchanged |-> (DOMAIN files) \ unreadable,
     baseline |-> DOMAIN files,
     knownFiles |-> DOMAIN files,
     fileContents |-> Restrict(files, (DOMAIN files) \ unreadable),
     handlers |-> {},
     notified |-> 0,
     delivered |-> <<>>]

Scanned ==
    UNION {{ScannedWith(files, unreadable) :
               unreadable \in SUBSET DOMAIN files} :
             files \in UNION {[present -> WatchContents] :
                                present \in SUBSET WatchPaths}}

InitWatch ==
    /\ InitController(PairConfigs, WatchPaths, {}, {})
    /\ fw \in Scanned

ControllerUnchanged ==
    UNCHANGED <<now, config, env, ctrl, timers, inflight, last, ghosts,
                burst>>

(* fs.watch calls the listener: the run starts and suspends at             *)
(* await fs.promises.stat(fullPath).                                       *)
Notified(w, p) ==
    [w EXCEPT !.notified = @ + 1,
              !.handlers = @ \cup {[n |-> w.notified + 1, path |-> p,
                                    pc |-> "stat", isNewFile |-> FALSE]}]

(* A file is created with content c, or written to.                        *)
FsWrite(p, c) ==
    /\ fw.mode = "watch"
    /\ fw.notified < MaxNotifications
    /\ fw' = Notified([fw EXCEPT
                         !.files = MapSet(@, p, c),
                         !.unchanged =
                             IF MapHas(fw.files, p) /\ fw.files[p] = c
                             THEN @ ELSE @ \ {p}], p)
    /\ ControllerUnchanged

FsDelete(p) ==
    /\ fw.mode = "watch"
    /\ fw.notified < MaxNotifications
    /\ MapHas(fw.files, p)
    /\ fw' = Notified([fw EXCEPT !.files = MapDelete(@, p),
                                 !.unreadable = @ \ {p},
                                 !.unchanged = @ \ {p}], p)
    /\ ControllerUnchanged

(* The permissions of a file change: it becomes unreadable, or readable.   *)
FsChmod(p) ==
    /\ fw.mode = "watch"
    /\ fw.notified < MaxNotifications
    /\ MapHas(fw.files, p)
    /\ fw' = Notified([fw EXCEPT
                         !.unreadable = IF p \in @ THEN @ \ {p}
                                        ELSE @ \cup {p}], p)
    /\ ControllerUnchanged

(* The stat completes.  It throws for a missing file and the run ends in   *)
(* the outer catch; otherwise the run goes on to its await of readFile,    *)
(* adding an unknown file to knownFiles on the way.                        *)
StatDone(h) ==
    /\ fw.mode = "watch"
    /\ h \in fw.handlers
    /\ h.pc = "stat"
    /\ IF ~MapHas(fw.files, h.path)
       THEN fw' = [fw EXCEPT !.handlers = @ \ {h}]
       ELSE LET isNewFile == h.path \notin fw.knownFiles
            IN fw' = [fw EXCEPT
                        !.knownFiles = @ \cup {h.path},
                        !.handlers = (@ \ {h}) \cup
                            {[h EXCEPT !.pc = "read",
                                       !.isNewFile = isNewFile]}]
    /\ ControllerUnchanged

EventType(h) == IF h.isNewFile THEN "file_created" ELSE "file_modified"

StoredNothing(w, p) == <<>>

(* this.fileContents.get(fullPath) || ''                                   *)
StoredContent(w, p) ==
    IF MapHas(w.fileContents, p) THEN w.fileContents[p] ELSE <<>>

(* The event of a run whose readFile returned content.                     *)
EventRead(w, h, content) ==
    IF h.isNewFile
    THEN [type |-> "file_created", path |-> h.path, n |-> h.n,
          linesChanged |-> Len(SplitLines(content)),
          linesAdded |-> Undefined, linesDeleted |-> Undefined]
    ELSE LET diff == CalculateLineChanges(StoredContent(w, h.path), content)
         IN [type |-> "file_modified", path |-> h.path, n |-> h.n,
             linesChanged |-> diff.total,
             linesAdded |-> diff.added, linesDeleted |-> diff.deleted]

(* The event of a run whose readFile threw.                                *)
EventUnread(h) ==
    [type |-> EventType(h), path |-> h.path, n |-> h.n,
     linesChanged |-> Undefined,
     linesAdded |-> Undefined, linesDeleted |-> Undefined]

Readable(w, p) == MapHas(w.files, p) /\ p \notin w.unreadable

(* The event a run at its await of readFile is about to pass to            *)
(* this.callback: readFile throws for a missing or unreadable file.        *)
EventOf(w, h) ==
    IF Readable(w, h.path) THEN EventRead(w, h, w.files[h.path])
    ELSE EventUnread(h)

(* The readFile completes and the run calls this.callback with its event.  *)
ReadDoneFw(h) ==
    /\ fw.mode = "watch"
    /\ h \in fw.handlers
    /\ h.pc = "read"
    /\ IF Readable(fw, h.path)
       THEN fw' = [fw EXCEPT
                     !.fileContents = MapSet(@, h.path, fw.files[h.path]),
                     !.unchanged = @ \cup {h.path},
                     !.delivered = Append(@, EventOf(fw, h)),
                     !.handlers = @ \ {h}]
       ELSE fw' = [fw EXCEPT
                     !.delivered = Append(@, EventOf(fw, h)),
                     !.handlers = @ \ {h}]

ReadDone(h) == ReadDoneFw(h) /\ ControllerUnchanged

(* The suspended runs of the listener.                                     *)
Handlers == IF fw.mode = "watch" THEN fw.handlers ELSE {}

NextWatch ==
    \/ \E p \in WatchPaths : \E c \in WatchContents : FsWrite(p, c)
    \/ \E p \in WatchPaths : FsDelete(p)
    \/ \E p \in WatchPaths : FsChmod(p)
    \/ \E h \in Handlers : StatDone(h)
    \/ \E h \in Handlers : ReadDone(h)

SpecWatch == InitWatch /\ [][NextWatch]_vars

(* C18: for a single path, events are delivered to the callback in the     *)
(* order in which their native notifications occurred, also when the       *)
(* handling of several notifications for the path overlaps; in particular  *)
(* a file's Created event is delivered before any Modified event for it.   *)
C18_PerPathOrder ==
    fw.mode = "watch" =>
        \A i, j \in 1..Len(fw.delivered) :
            i < j /\ fw.delivered[i].path = fw.delivered[j].path =>
                /\ fw.delivered[i].n < fw.delivered[j].n
                /\ ~(/\ fw.delivered[i].type = "file_modified"
                     /\ fw.delivered[j].type = "file_created")


(***************************************************************************)
(* The line diff and the watcher side by side: either two contents are     *)
(* drawn and diffed, or a watcher runs.                                    *)
(***************************************************************************)
InitIdentical == InitDiff \/ InitWatch

NextIdentical == Diff \/ NextWatch

SpecIdentical == InitIdentical /\ [][NextIdentical]_vars

NoChanges == [total |-> 0, added |-> 0, deleted |-> 0]

(* The run h of the listener ends in this step and calls the callback.     *)
Delivers(h) ==
    /\ fw.mode = "watch"
    /\ h \in fw.handlers
    /\ h.pc = "read"
    /\ h \notin fw'.handlers
    /\ Len(fw'.delivered) = Len(fw.delivered) + 1

Delivered == fw'.delivered[Len(fw'.delivered)]

(* C21: diffing a content against itself yields {total: 0, added: 0,       *)
(* deleted: 0}; and a notification for a known file whose content is read  *)
(* and has not changed since the watcher last read it emits Modified with  *)
(* linesChanged = 0 (and linesAdded = linesDeleted = 0).                   *)
C21_IdenticalContent ==
    /\ [](Diffed /\ fw.oldContent = fw.newContent => fw.result = NoChanges)
    /\ [][\A h \in Handlers :
            /\ Delivers(h)
            /\ ~h.isNewFile
            /\ h.path \in fw.unchanged
            /\ Readable(fw, h.path)
            => /\ Delivered.type = "file_modified"
               /\ Delivered.n = h.n
               /\ Delivered.linesChanged = 0
               /\ Delivered.linesAdded = 0
               /\ Delivered.linesDeleted = 0]_vars

(* The second notification of a file was handled after the first and       *)
(* found the content the first had read.                                   *)
C21_Witness ==
    /\ fw.mode = "watch"
    /\ \E i, j \in 1..Len(fw.delivered) :
         /\ i < j
         /\ fw.delivered[i].n = 1
         /\ fw.delivered[i].linesChanged > 0
         /\ fw.delivered[j].n = 2
         /\ fw.delivered[j].type = "file_modified"
         /\ fw.delivered[j].linesChanged = 0


(* The number of lines of a content: one more than its newlines.           *)
LineCount(c) == NewlineCount(c) + 1

(* C22: the run for a file not yet known marks it known when its stat      *)
(* returns and, when its read returns, stores the content as the snapshot  *)
(* and emits Created with linesChanged = the content's line count; the run *)
(* for a known file emits Modified whose linesChanged, linesAdded and      *)
(* linesDeleted are the line diff of the stored snapshot (the empty        *)
(* content when none is stored) and the content just read, and replaces    *)
(* the snapshot with that content; files of the baseline scan are known    *)
(* from the start and never yield Created.                                 *)
C22_Classification ==
    /\ [](fw.mode = "watch" =>
            /\ \A i \in 1..Len(fw.delivered) :
                 fw.delivered[i].type = "file_created" =>
                     fw.delivered[i].path \notin fw.baseline
            /\ \A h \in fw.handlers :
                 h.pc = "read" => h.path \in fw.knownFiles)
    /\ [][\A h \in Handlers :
            /\ h.pc = "stat" /\ h \notin fw'.handlers
               /\ MapHas(fw.files, h.path) =>
                 \E g \in fw'.handlers :
                    /\ g.n = h.n /\ g.pc = "read"
                    /\ g.isNewFile = (h.path \notin fw.knownFiles)
                    /\ fw'.knownFiles = fw.knownFiles \cup {h.path}
            /\ Delivers(h) /\ Readable(fw, h.path) =>
                 LET content == fw.files[h.path]
                     snapshot == IF h.path \in DOMAIN fw.fileContents
                                 THEN fw.fileContents[h.path] ELSE <<>>
                     diff == CalculateLineChanges(snapshot, content)
                 IN /\ fw'.fileContents = MapSet(fw.fileContents, h.path,
                                                 content)
                    /\ Delivered.path = h.path
                    /\ h.isNewFile =>
                         /\ Delivered.type = "file_created"
                         /\ Delivered.linesChanged = LineCount(content)
                    /\ ~h.isNewFile =>
                         /\ Delivered.type = "file_modified"
                         /\ Delivered.linesChanged = diff.total
                         /\ Delivered.linesAdded = diff.added
                         /\ Delivered.linesDeleted = diff.deleted]_vars

(* A new file of two lines was reported as Created with 2 lines, then      *)
(* shortened to one line and reported as Modified with one line deleted.   *)
C22_Witness ==
    /\ fw.mode = "watch"
    /\ Len(fw.delivered) = 2
    /\ fw.delivered[1].type = "file_created"
    /\ fw.delivered[1].linesChanged = 2
    /\ fw.delivered[2].type = "file_modified"
    /\ fw.delivered[2].linesChanged = 1
    /\ fw.delivered[2].linesDeleted = 1
    /\ fw.fileContents[PathA] = <<"a">>


(* C23: when the stat or the read of a run fails because the file is no    *)
(* longer there, the run ends without calling the callback: no event, with *)
(* or without counts, is emitted for that notification.                    *)
C23_VanishedSuppressed ==
    [][\A h \in Handlers :
          h \notin fw'.handlers /\ ~MapHas(fw.files, h.path) =>
              fw'.delivered = fw.delivered]_vars


(***************************************************************************)
(* The watcher with the controller's createWatcherCallback() as its        *)
(* callback: a run of the listener that calls this.callback hands its      *)
(* event to the controller's handler.                                      *)
(***************************************************************************)
WatcherCallback(e) ==
    IF e.type = "file_created" THEN FileCreated(e.path, e.linesChanged)
    ELSE FileModified(e.path, e.linesChanged)

ReadDoneCallback(h) ==
    /\ ReadDoneFw(h)
    /\ WatcherCallback(EventOf(fw, h))
    /\ UNCHANGED burst

PipelineConfigs ==
    {ConfigOf(FALSE, Absent, 2, 1), ConfigOf(TRUE, Absent, 2, 1)}

InitPipeline ==
    /\ InitController(PipelineConfigs, WatchPaths, {}, {})
    /\ fw \in Scanned

NextPipeline ==
    \/ \E p \in WatchPaths : \E c \in WatchContents : FsWrite(p, c)
    \/ \E p \in WatchPaths : FsDelete(p)
    \/ \E p \in WatchPaths : FsChmod(p)
    \/ \E h \in Handlers : StatDone(h)
    \/ \E h \in Handlers : ReadDoneCallback(h)

SpecPipeline == InitPipeline /\ [][NextPipeline]_vars

(* C24: a file that exists and cannot be read is tracked without a         *)
(* snapshot and reported without counts: the files the baseline scan could *)
(* not read are known and have no snapshot; a run whose read fails on an   *)
(* existing file stores no snapshot and emits its event (Created for a new *)
(* file, which is known by then) with linesChanged omitted; and the        *)
(* controller's handling of that event leaves the path's accumulated       *)
(* count as it was.                                                        *)
C24_UnreadableTracked ==
    /\ [](fw.mode = "watch" /\ fw.notified = 0 =>
            \A p \in fw.unreadable :
                p \in fw.knownFiles /\ p \notin DOMAIN fw.fileContents)
    /\ [][\A h \in Handlers :
            /\ Delivers(h)
            /\ MapHas(fw.files, h.path)
            /\ h.path \in fw.unreadable
            => /\ Delivered.type =
                    (IF h.isNewFile THEN "file_created" ELSE "file_modified")
               /\ Delivered.linesChanged = Undefined
               /\ Delivered.linesAdded = Undefined
               /\ Delivered.linesDeleted = Undefined
               /\ h.path \in fw'.knownFiles
               /\ fw'.fileContents = fw.fileContents
               /\ GetFileChanges(h.path)' = GetFileChanges(h.path)]_vars

(* A new file became unreadable before it was read: it is known, has no    *)
(* snapshot, and was reported as Created without a line count.             *)
C24_Witness ==
    /\ fw.mode = "watch"
    /\ PathA \in fw.unreadable
    /\ PathA \in fw.knownFiles
    /\ PathA \notin DOMAIN fw.fileContents
    /\ Len(fw.delivered) = 1
    /\ fw.delivered[1].type = "file_created"
    /\ fw.delivered[1].linesChanged = Undefined
    /\ ~config.generateOnCreate
    /\ GetFileChanges(PathA) = 0


(* C25: after a debounce-timer dispatch completes (the generator returned  *)
(* or threw and the result was delivered), the path's change counter is 0: *)
(* getFileChanges(path) returns 0 at that moment.                          *)
C25_CounterZeroAfterDispatch ==
    last.op = "complete:timer" /\ last.sink # <<>> =>
        GetFileChanges(last.path) = 0


(***************************************************************************)
(* The controller with a ledger of the events it was handed: for every     *)
(* path, the count of the last Created event that seeded the counter       *)
(* (lastSeed), that count if the counter was not zeroed or deleted since   *)
(* (seed), and                                                             *)
(* the linesChanged of the Modified events since the counter was last      *)
(* zeroed or deleted (sinceReset) and since it was last zeroed, deleted or *)
(* seeded (sinceSeed); the linesChanged of the last event (lines); the     *)
(* count with which the path's live timer was set (atStart) and whether    *)
(* the counter was lowered since (lowered).                                *)
(***************************************************************************)
LedgerLines == {Undefined, 1, 2, 3}

NoLedger(paths) ==
    [mode |-> "ledger",
     lines |-> Undefined,
     lastSeed |-> [p \in paths |-> 0],
     seed |-> [p \in paths |-> 0],
     sinceReset |-> [p \in paths |-> 0],
     sinceSeed |-> [p \in paths |-> 0],
     atStart |-> [p \in paths |-> Undefined],
     lowered |-> [p \in paths |-> FALSE]]

(* file_created: the handler sets the counter when generateOnCreate is off *)
(* and the event carries a count.                                          *)
LedgerCreated(p, l) ==
    fw' = IF ShouldExclude(p) \/ config.generateOnCreate \/ Falsy(l)
          THEN [fw EXCEPT !.lines = l]
          ELSE [fw EXCEPT !.lines = l,
                          !.lastSeed[p] = l, !.seed[p] = l,
                          !.sinceSeed[p] = 0,
                          !.lowered[p] =
                              @ \/ (/\ \E t \in timers : t.path = p
                                    /\ l < OrElse(MapGet(fileChanges, p), 0))]

(* The ledger stops counting above the largest count the model lets the    *)
(* controller reach.                                                       *)
LedgerCap == AccBound + 1

LedgerModified(p, l) ==
    fw' = IF ShouldExclude(p) THEN [fw EXCEPT !.lines = l]
          ELSE [fw EXCEPT
                  !.lines = l,
                  !.sinceReset[p] = Min2(@ + OrElse(l, 0), LedgerCap),
                  !.sinceSeed[p] = Min2(@ + OrElse(l, 0), LedgerCap),
                  !.atStart[p] =
                      IF StartsTimer(p, l) THEN TotalChanges(p, l)
                      ELSE IF TotalChanges(p, l) >= config.changeThreshold
                      THEN Undefined ELSE @,
                  !.lowered[p] =
                      IF TotalChanges(p, l) >= config.changeThreshold
                      THEN FALSE ELSE @]

Zeroed(f, ps, v) == [p \in DOMAIN f |-> IF p \in ps THEN v ELSE f[p]]

(* The counter of the paths ps was deleted and their timers cleared.       *)
LedgerCleared(ps) ==
    fw' = [fw EXCEPT !.seed = Zeroed(@, ps, 0),
                     !.sinceReset = Zeroed(@, ps, 0),
                     !.sinceSeed = Zeroed(@, ps, 0),
                     !.atStart = Zeroed(@, ps, Undefined),
                     !.lowered = Zeroed(@, ps, FALSE)]

(* A timer-initiated generation returned and the counter was set to 0.     *)
LedgerCompleted(g, o, sk) ==
    IF g.origin = "timer" /\ ~Escapes(o, sk)
    THEN fw' = [fw EXCEPT
                  !.seed[g.path] = 0,
                  !.sinceReset[g.path] = 0,
                  !.sinceSeed[g.path] = 0,
                  !.lowered[g.path] =
                      @ \/ (/\ \E t \in timers : t.path = g.path
                            /\ OrElse(MapGet(fileChanges, g.path), 0) > 0)]
    ELSE UNCHANGED fw

(* The path's timer fired.                                                 *)
LedgerFired(t) ==
    fw' = [fw EXCEPT !.atStart[t.path] = Undefined,
                     !.lowered[t.path] = FALSE]

InitAccumulate ==
    /\ InitController(PipelineConfigs, {PathA},
                      {"file_created", "file_modified", "timer"}, {})
    /\ fw = NoLedger({PathA})

NextAccumulate ==
    \/ \E p \in env.paths, l \in LedgerLines :
          FileCreated(p, l) /\ LedgerCreated(p, l) /\ UNCHANGED burst
    \/ \E p \in env.paths, l \in LedgerLines :
          FileModified(p, l) /\ LedgerModified(p, l) /\ UNCHANGED burst
    \/ \E t \in timers : TimerFire(t) /\ LedgerFired(t) /\ UNCHANGED burst
    \/ \E g \in BagToSet(inflight), o \in GenOutcomes, sk \in SinkBehaviours :
          Complete(g, o, sk) /\ LedgerCompleted(g, o, sk) /\ UNCHANGED burst
    \/ \E p \in env.paths :
          ResetFileTracking(p) /\ LedgerCleared({p}) /\ UNCHANGED burst
    \/ Reset /\ LedgerCleared(env.paths) /\ UNCHANGED burst
    \/ now < MaxPairTime /\ Tick /\ UNCHANGED <<burst, fw>>

SpecAccumulate == InitAccumulate /\ [][NextAccumulate]_vars

(* The same over the whole time horizon, so that a generation can outlast  *)
(* the cooldown and a second timer of the path can be pending when it      *)
(* completes; generateOnCreate is off.                                     *)
InitFresh ==
    /\ InitController(PairConfigs, {PathA},
                      {"file_created", "file_modified", "timer"}, {})
    /\ fw = NoLedger({PathA})

NextFresh ==
    \/ \E p \in env.paths, l \in LedgerLines :
          FileCreated(p, l) /\ LedgerCreated(p, l) /\ UNCHANGED burst
    \/ \E p \in env.paths, l \in LedgerLines :
          FileModified(p, l) /\ LedgerModified(p, l) /\ UNCHANGED burst
    \/ \E t \in timers : TimerFire(t) /\ LedgerFired(t) /\ UNCHANGED burst
    \/ \E g \in BagToSet(inflight), o \in GenOutcomes, sk \in SinkBehaviours :
          Complete(g, o, sk) /\ LedgerCompleted(g, o, sk) /\ UNCHANGED burst
    \/ \E p \in env.paths :
          ResetFileTracking(p) /\ LedgerCleared({p}) /\ UNCHANGED burst
    \/ Reset /\ LedgerCleared(env.paths) /\ UNCHANGED burst
    \/ Tick /\ UNCHANGED <<burst, fw>>

SpecFresh == InitFresh /\ [][NextFresh]_vars

Ledger == fw.mode = "ledger"

(* C26 as stated: getFileChanges(path) always equals the seed from the     *)
(* last Created event plus the sum of linesChanged of all Modified events  *)
(* handled since the accumulator was last reset or cleared, and is never   *)
(* negative.                                                               *)
C26_SeedPlusModifiedSinceReset ==
    Ledger =>
        \A p \in env.paths :
            /\ GetFileChanges(p) = fw.lastSeed[p] + fw.sinceReset[p]
            /\ GetFileChanges(p) >= 0

(* C26: every Modified event for an eligible path adds its linesChanged (0 *)
(* when absent) to the path's count, whether or not the threshold is       *)
(* reached and whether or not the path is cooling down; getFileChanges     *)
(* always equals the count seeded by a Created event since the counter was *)
(* last zeroed or deleted (0 when there was none) plus the sum of          *)
(* linesChanged of the Modified events handled since the counter was last  *)
(* zeroed, deleted or seeded, and is never negative.                       *)
C26_Accumulation ==
    Ledger =>
        \A p \in env.paths :
            /\ GetFileChanges(p) = fw.seed[p] + fw.sinceSeed[p]
            /\ GetFileChanges(p) >= 0

(* A seeded path that is cooling down and over the threshold, with         *)
(* Modified events counted on top of the seed.                             *)
C26_Witness ==
    /\ Ledger
    /\ IsInCooldown(PathA)
    /\ fw.seed[PathA] = 2
    /\ fw.sinceSeed[PathA] = 2
    /\ GetFileChanges(PathA) = 4
    /\ GetFileChanges(PathA) >= config.changeThreshold


(* C27: with generateOnCreate = false, a Created event for an eligible     *)
(* path that reports a line count sets the path's count to it and neither  *)
(* calls the generator nor starts or clears a timer, also when the count   *)
(* is at or above changeThreshold; the next Modified event compares the    *)
(* seeded count plus its own linesChanged with the threshold.              *)
C27_CreatedSeeds ==
    [][\A p \in env.paths :
          /\ Ledger
          /\ ~config.generateOnCreate
          /\ ~ShouldExclude(p)
          /\ last'.path = p
          => /\ last'.op = "file_created" /\ fw'.lines >= 1 =>
                  /\ fileChanges' = MapSet(fileChanges, p, fw'.lines)
                  /\ last'.started = {}
                  /\ inflight' = inflight
                  /\ timers' = timers
                  /\ pendingTimers' = pendingTimers
             /\ last'.op = "file_modified" =>
                  LET total == fw.seed[p] + fw.sinceSeed[p]
                                 + OrElse(fw'.lines, 0)
                  IN /\ fileChanges' = MapSet(fileChanges, p, total)
                     /\ timers' \ timers # {} =>
                          total >= config.changeThreshold
                     /\ total >= config.changeThreshold /\ ~IsInCooldown(p)
                          => \E t \in timers' :
                                t.path = p /\ t.due = now + debounceMs]_vars

(* A Created event reported 3 lines, the threshold, and started nothing;   *)
(* the Modified event after it reported one line and started the timer.    *)
C27_Witness ==
    /\ Ledger
    /\ ~config.generateOnCreate
    /\ last.op = "file_modified"
    /\ fw.seed[PathA] = 3
    /\ fw.sinceSeed[PathA] = 1
    /\ GetFileChanges(PathA) = 4
    /\ LiveTimers(PathA) # {}
    /\ inflight = EmptyBag
    /\ lastDocumentedTime = EmptyMap


(* The debounce timer of p fires in this step and calls the generator.     *)
TimerDispatches(p) ==
    /\ Ledger
    /\ last'.op = "timer"
    /\ last'.path = p
    /\ last'.started # {}

(* C28 as stated: a debounce-timer dispatch uses the accumulated total the *)
(* path holds at the moment the timer fires, and every debounce-timer      *)
(* dispatch is made with an accumulated total >= changeThreshold.          *)
C28_DispatchAtThreshold ==
    [][\A p \in env.paths :
          TimerDispatches(p) =>
              \A c \in last'.started :
                  /\ c.linesChanged = GetFileChanges(p)
                  /\ c.linesChanged >= config.changeThreshold]_vars

(* C28: a debounce-timer dispatch uses the accumulated total the path      *)
(* holds at the moment the timer fires, not the one the timer was set      *)
(* with; every debounce timer is set with a total >= changeThreshold, and  *)
(* the total dispatched is below the threshold only if the counter was     *)
(* lowered while the timer was pending, by the completion of an earlier    *)
(* timer dispatch or by a Created event that seeded a smaller count.       *)
C28_FreshLookup ==
    /\ [](Ledger =>
            \A t \in timers :
                /\ fw.atStart[t.path] >= config.changeThreshold
                /\ GetFileChanges(t.path) >= config.changeThreshold
                     \/ fw.lowered[t.path])
    /\ [][\A p \in env.paths :
            TimerDispatches(p) =>
                \A c \in last'.started :
                    /\ c.linesChanged = GetFileChanges(p)
                    /\ c.linesChanged >= config.changeThreshold
                         \/ fw.lowered[p]]_vars

(* A timer set while an earlier timer dispatch was still running fired     *)
(* after that dispatch had completed and zeroed the counter: the dispatch  *)
(* was made with 0.                                                        *)
C28_Witness ==
    /\ Ledger
    /\ last.op = "timer"
    /\ \E c \in last.started : c.linesChanged = 0
    /\ documentedFiles # {}


(***************************************************************************)
(* Detail levels: configurations in the per-extension format and in the    *)
(* legacy format (fileExtensions, docDetailLevel), with Created events,    *)
(* Modified events, timers and manual triggers for paths of several        *)
(* extensions.                                                             *)
(***************************************************************************)
ExtPy == <<".", "p", "y">>

LegacyConfig(fileExtensions, docDetailLevel) ==
    [ConfigOf(TRUE, Absent, 2, 1) EXCEPT
       !.fileExtensions = fileExtensions,
       !.docDetailLevel = docDetailLevel]

DetailConfigs ==
    { LegacyConfig(Absent, Absent),
      LegacyConfig(Absent, Present("comprehensive")),
      LegacyConfig(Present({ExtTs, ExtPy}), Absent),
      LegacyConfig(Present({ExtJs, ExtPy}), Present("brief")),
      ConfigOf(TRUE, Present(ExtConfigsWithMd), 2, 1),
      [LegacyConfig(Present({ExtPy}), Present("brief")) EXCEPT
         !.extensionConfigs = Present(ExtConfigsWithMd)],
      ConfigOf(TRUE, Present(<<>>), 2, 1) }

DetailPaths == {PathA, PathB, PathPy, PathMd, PathNoExt}

DetailLines == {3}

(* Each behaviour is about one of the paths.                               *)
InitDetail ==
    \E p \in DetailPaths :
        InitWith(DetailConfigs, {p},
                 {"file_created", "timer", "documentFile"}, {})

NextDetail ==
    \/ \E p \in env.paths, l \in DetailLines :
          FileCreated(p, l) /\ UNCHANGED <<burst, fw>>
    \/ \E p \in env.paths, l \in DetailLines :
          FileModified(p, l) /\ UNCHANGED <<burst, fw>>
    \/ \E t \in timers : TimerFire(t) /\ UNCHANGED <<burst, fw>>
    \/ \E g \in BagToSet(inflight), o \in GenOutcomes, sk \in SinkBehaviours :
          Complete(g, o, sk) /\ UNCHANGED <<burst, fw>>
    \/ \E p \in env.paths : DocumentFile(p, FALSE) /\ UNCHANGED <<burst, fw>>
    \/ now < MaxPairTime /\ Tick /\ UNCHANGED <<burst, fw>>

SpecDetail == InitDetail /\ [][NextDetail]_vars

(* The level the configuration gives the extension e, if it gives one.     *)
ConfiguredLevels(e) ==
    IF config.extensionConfigs # Absent
    THEN LET cfgs == config.extensionConfigs[1]
             at == {i \in 1..Len(cfgs) : cfgs[i].extension = e}
         IN {cfgs[i].detailLevel : i \in {j \in at : \A k \in at : k <= j}}
    ELSE LET legacy == IF config.fileExtensions = Absent
                       THEN {ExtTs, ExtTsx, ExtJs, ExtJsx}
                       ELSE config.fileExtensions[1]
         IN IF e \notin legacy THEN {}
            ELSE IF config.docDetailLevel = Absent THEN {"standard"}
            ELSE {config.docDetailLevel[1]}

SampleExtensions == {ExtTs, ExtTsx, ExtJs, ExtJsx, ExtMd, ExtPy}

(* C29: the extension-to-detail map holds exactly the entries of the       *)
(* per-extension configs when they are supplied (the last entry of an      *)
(* extension counts) and otherwise maps each legacy extension (default     *)
(* .ts, .tsx, .js, .jsx) to the legacy global level, or to standard when   *)
(* none is given; every generator call is made with the level the map      *)
(* holds for the path's extension; and for a path whose extension is not   *)
(* in the map no generator call is made.                                   *)
C29_DetailLevel ==
    /\ \A e \in SampleExtensions :
         /\ MapHas(extensionDetailMap, e) <=> ConfiguredLevels(e) # {}
         /\ MapHas(extensionDetailMap, e) =>
              ConfiguredLevels(e) = {extensionDetailMap[e]}
    /\ DOMAIN extensionDetailMap \subseteq SampleExtensions
    /\ \A c \in last.started :
         /\ ConfiguredLevels(ExtOf(c.path)) = {c.detailLevel}
         /\ ExtMatchPos(c.path) > 0
    /\ last.op \in {"file_created", "documentFile"}
         /\ ConfiguredLevels(ExtOf(last.path)) = {}
         => last.started = {}

(* A manual trigger, a Created event or a timer called the generator at    *)
(* the legacy global level "brief" for a .js path.                         *)
C29_Witness ==
    /\ config.extensionConfigs = Absent
    /\ config.docDetailLevel = Present("brief")
    /\ \E c \in last.started : c.path = PathB /\ c.detailLevel = "brief"


(***************************************************************************)
(* Timing configuration: cooldownMs and debounceMs absent, 0 or positive.  *)
(***************************************************************************)
TimingValues(positive) == {Undefined, 0, positive}

TimingConfigs ==
    { ConfigOf(FALSE, Absent, c, d) :
        c \in TimingValues(2), d \in TimingValues(1) }

ThresholdLines == {3}

InitConfigured ==
    InitWith(TimingConfigs, {PathA}, {"file_modified", "timer"}, {})

NextConfigured ==
    \/ \E p \in env.paths, l \in ThresholdLines :
          FileModified(p, l) /\ UNCHANGED <<burst, fw>>
    \/ \E t \in timers : TimerFire(t) /\ UNCHANGED <<burst, fw>>
    \/ \E g \in BagToSet(inflight), o \in GenOutcomes, sk \in SinkBehaviours :
          Complete(g, o, sk) /\ UNCHANGED <<burst, fw>>
    \/ Tick /\ UNCHANGED <<burst, fw>>

SpecConfigured == InitConfigured /\ [][NextConfigured]_vars

(* The value a supplied timing field asks for: the field's own value, and   *)
(* the default only when the field is absent.                              *)
SuppliedOr(x, d) == IF x = Undefined THEN d ELSE x

CoolingAsConfigured(p) ==
    /\ MapHas(lastDocumentedTime, p)
    /\ now - lastDocumentedTime[p]
         < SuppliedOr(config.cooldownMs, DefaultCooldownMs)

(* C30: the controller uses the cooldownMs and debounceMs the              *)
(* configuration supplies, 0 included, and the defaults 30000 and 20000    *)
(* only for an absent field: a Modified event that leaves a path at or     *)
(* above the threshold starts a debounce timer exactly when the path is    *)
(* not within that cooldownMs of its last timer dispatch, the timer being  *)
(* due that debounceMs later, and a debounce timer that fires dispatches   *)
(* exactly when the path is not within that cooldownMs.                    *)
C30_SuppliedTimingUsed ==
    [][ /\ last'.op = "file_modified"
           /\ OrElse(MapGet(fileChanges', last'.path), 0) >= config.changeThreshold
           => (~CoolingAsConfigured(last'.path)
                 <=> \E t \in timers' :
                        /\ t.path = last'.path
                        /\ t.id = pendingTimers'[last'.path]
                        /\ t.due = now + SuppliedOr(config.debounceMs,
                                                    DefaultDebounceMs))
        /\ last'.op = "timer"
           => (~CoolingAsConfigured(last'.path) <=> last'.started # {})
      ]_vars


(***************************************************************************)
(* C31.  In every reachable state no path has both a pending debounce      *)
(* timer (a live timeout, or a handle tracked in pendingTimers) and an     *)
(* active cooldown (a cooldown timestamp less than cooldownMs old).        *)
(***************************************************************************)
CooldownActive(p) ==
    /\ MapHas(lastDocumentedTime, p)
    /\ now - lastDocumentedTime[p] < cooldownMs

C31_TimerExcludesCooldown ==
    \A p \in Paths :
        CooldownActive(p) =>
            /\ \A t \in timers : t.path # p
            /\ ~MapHas(pendingTimers, p)

(* A Modified event was handled for a path in its cooldown with the count  *)
(* at or above the threshold, and the path has no timer.                   *)
C31_Witness ==
    /\ last.op = "file_modified"
    /\ last.path = PathA
    /\ CooldownActive(PathA)
    /\ GetFileChanges(PathA) >= config.changeThreshold
    /\ \A t \in timers : t.path # PathA


(***************************************************************************)
(* C32.  Two dispatches made by debounce timers for the same path, with    *)
(* no resetFileTracking or reset of the path between them, have schedule   *)
(* times at least cooldownMs + debounceMs apart.                           *)
(***************************************************************************)
C32_TimerDispatchSpacing ==
    [][\A p \in env.paths :
          DispatchStep(p, {"timer"}) /\ timerSched[p] # Undefined
            => now - timerSched[p] >= cooldownMs + debounceMs]_vars

(* Two timer dispatches of one path, the second exactly cooldownMs +       *)
(* debounceMs after the first.                                             *)
C32_Witness ==
    \E g1, g2 \in UnresetTimerCalls(PathA) :
        /\ g2.stamp = g1.stamp + cooldownMs + debounceMs
        /\ timerSched[PathA] = g2.stamp


(***************************************************************************)
(* C33.  At most one generator call is in flight for a path at any time:   *)
(* no debounce timer, Created event or manual trigger starts a call for a  *)
(* path while an earlier call for that path has not completed.             *)
(***************************************************************************)
InFlightFor(p) == {g \in BagToSet(inflight) : g.path = p}

C33_OneGenerationPerPath ==
    \A p \in Paths :
        /\ Cardinality(InFlightFor(p)) <= 1
        /\ \A g \in InFlightFor(p) : CopiesIn(g, inflight) <= 1


(***************************************************************************)
(* Liveness.  Timeouts run when they are due, the clock advances, and an   *)
(* awaited generator call settles.  Modified events arrive early enough    *)
(* for their timer to be due within the time the model follows; every     *)
(* generator call is one made by a debounce timer.                         *)
(*                                                                         *)
(* History of the path (mode "live"): phase is "armed" from a Modified     *)
(* event handled at or above the threshold outside the cooldown, until a   *)
(* timer dispatch ("dispatched") or a resetFileTracking or reset           *)
(* ("disturbed"); awaiting holds the schedule times of the timer           *)
(* dispatches whose generator call is pending, delivered those whose       *)
(* result was handed to the callback.                                      *)
(***************************************************************************)
LiveLines == {1, 3}

NoHistory ==
    [mode |-> "live", phase |-> "idle", awaiting |-> {}, delivered |-> {}]

LiveModified(p, l) ==
    fw' = IF TotalChanges(p, l) >= config.changeThreshold /\ ~CooldownActive(p)
          THEN [fw EXCEPT !.phase = "armed"]
          ELSE fw

LiveFired(t) ==
    fw' = IF inflight' # inflight
          THEN [fw EXCEPT !.phase = "dispatched",
                          !.awaiting = @ \cup {now}]
          ELSE fw

LiveCompleted(g, o, sk) ==
    fw' = IF g.origin = "timer"
          THEN [fw EXCEPT !.awaiting = @ \ {g.stamp},
                          !.delivered = IF Deliveries(g, o, sk) # <<>>
                                        THEN @ \cup {g.stamp} ELSE @]
          ELSE fw

LiveCleared ==
    fw' = IF fw.phase = "armed" THEN [fw EXCEPT !.phase = "disturbed"] ELSE fw

InitLive ==
    /\ InitController(PairConfigs, {PathA}, {}, {"stamp"})
    /\ fw = NoHistory

TimerRuns == \E t \in timers : TimerFire(t) /\ LiveFired(t) /\ UNCHANGED burst

GeneratorSettles ==
    \E g \in BagToSet(inflight), o \in GenOutcomes, sk \in SinkBehaviours :
        Complete(g, o, sk) /\ LiveCompleted(g, o, sk) /\ UNCHANGED burst

ClockAdvances == Tick /\ UNCHANGED <<burst, fw>>

NextLive ==
    \/ \E p \in env.paths, l \in LiveLines :
          FileCreated(p, l) /\ UNCHANGED <<burst, fw>>
    \/ \E p \in env.paths, l \in LiveLines :
          now + debounceMs <= MaxTime /\ FileModified(p, l)
            /\ LiveModified(p, l) /\ UNCHANGED burst
    \/ TimerRuns
    \/ GeneratorSettles
    \/ \E p \in env.paths :
          ResetFileTracking(p) /\ LiveCleared /\ UNCHANGED burst
    \/ Reset /\ LiveCleared /\ UNCHANGED burst
    \/ ClockAdvances

SpecLive ==
    /\ InitLive
    /\ [][NextLive]_vars
    /\ WF_vars(TimerRuns)
    /\ WF_vars(GeneratorSettles)
    /\ WF_vars(ClockAdvances)

(***************************************************************************)
(* C34.  When a Modified event brings an eligible path's total to the      *)
(* threshold or above while the path is not cooling down, a debounce-timer *)
(* dispatch for the path eventually follows unless a resetFileTracking or  *)
(* reset of the path intervenes (further events do not prevent it); and    *)
(* the result of every timer dispatch is eventually handed to the          *)
(* callback, given that the generator call settles.                        *)
(***************************************************************************)
C34_EventuallyDispatched ==
    /\ (fw.phase = "armed") ~> (fw.phase \in {"dispatched", "disturbed"})
    /\ \A s \in 1..MaxTime :
          (s \in fw.awaiting) ~> (s \in fw.delivered)

(* The timer dispatch that followed the arming event was made and its      *)
(* result was handed to the callback.                                      *)
C34_Witness ==
    /\ fw.mode = "live"
    /\ fw.phase = "dispatched"
    /\ fw.awaiting = {}
    /\ fw.delivered # {}
    /\ inflight = EmptyBag
    /\ GetFileChanges(PathA) = 0


(***************************************************************************)
(* The end of a cooldown.  History (mode "cooling"): the lines of the      *)
(* Modified events handled while the path was cooling down since its last  *)
(* timer dispatch, up to AccBound.                                         *)
(***************************************************************************)
NoCooling == [mode |-> "cooling", lines |-> 0]

CoolingModified(p, l) ==
    fw' = IF CooldownActive(p)
          THEN [fw EXCEPT !.lines = Min2(@ + OrElse(l, 0), AccBound)]
          ELSE fw

CoolingRestarted == fw' = [fw EXCEPT !.lines = 0]

CoolingFired == IF inflight' # inflight THEN CoolingRestarted ELSE fw' = fw

InitExpiry ==
    /\ InitController(PairConfigs, {PathA},
                      {"file_created", "file_modified"}, {})
    /\ fw = NoCooling

NextExpiry ==
    \/ \E p \in env.paths, l \in LineVals :
          FileCreated(p, l) /\ UNCHANGED <<burst, fw>>
    \/ \E p \in env.paths, l \in LineVals :
          FileModified(p, l) /\ CoolingModified(p, l) /\ UNCHANGED burst
    \/ \E t \in timers : TimerFire(t) /\ CoolingFired /\ UNCHANGED burst
    \/ \E g \in BagToSet(inflight), o \in GenOutcomes, sk \in SinkBehaviours :
          Complete(g, o, sk) /\ UNCHANGED <<burst, fw>>
    \/ \E p \in env.paths : DocumentFile(p, FALSE) /\ UNCHANGED <<burst, fw>>
    \/ \E p \in env.paths :
          ResetFileTracking(p) /\ CoolingRestarted /\ UNCHANGED burst
    \/ Reset /\ CoolingRestarted /\ UNCHANGED burst
    \/ Tick /\ UNCHANGED <<burst, fw>>

SpecExpiry == InitExpiry /\ [][NextExpiry]_vars

TimerStarted(p) == \E t \in timers' \ timers : t.path = p

(***************************************************************************)
(* C35.  A debounce timer is started for a path only by a Modified event   *)
(* of the path handled outside the cooldown with the accumulated total at  *)
(* or above the threshold; a step in which the cooldown of a path ends     *)
(* starts no timer and makes no dispatch for it; and a debounce-timer      *)
(* dispatch is made only by a timer of the path that was live.             *)
(***************************************************************************)
C35_ExpiryTriggersNothing ==
    [][\A p \in env.paths :
          /\ TimerStarted(p) =>
               /\ last'.op = "file_modified"
               /\ last'.path = p
               /\ OrElse(MapGet(fileChanges', p), 0) >= config.changeThreshold
               /\ ~CooldownActive(p)
               /\ ~CooldownActive(p)'
          /\ CooldownActive(p) /\ ~CooldownActive(p)' =>
               /\ ~TimerStarted(p)
               /\ LiveTimers(p)' = {}
               /\ ~DispatchStep(p, Origins)
          /\ DispatchStep(p, {"timer"}) =>
               \E t \in LiveTimers(p) : t \notin timers' /\ t.due <= now
      ]_vars

(* The cooldown of the path has ended, the lines accumulated during it     *)
(* reach the threshold, and there is neither a timer nor a generator call. *)
C35_Witness ==
    /\ fw.mode = "cooling"
    /\ fw.lines >= config.changeThreshold
    /\ GetFileChanges(PathA) >= config.changeThreshold
    /\ MapHas(lastDocumentedTime, PathA)
    /\ ~CooldownActive(PathA)
    /\ LiveTimers(PathA) = {}
    /\ inflight = EmptyBag
    /\ last.op = "-"


(* The main specification, observing the manual trigger and the completion *)
(* of its generator call.                                                  *)
InitTrigger ==
    InitWith(Configs, SpecPaths, {"documentFile", "complete:manual"}, {})
SpecTrigger == InitTrigger /\ [][Next]_vars

TriggerState == <<fileChanges, lastDocumentedTime, pendingTimers, timers>>

NoQuiet == [mode |-> "quiet", sinceReset |-> FALSE]

Quiet(b) == fw' = [fw EXCEPT !.sinceReset = b]

InitQuiet ==
    /\ InitController(PairConfigs, {PathA}, {}, {})
    /\ fw = NoQuiet

NextQuiet ==
    \/ \E p \in env.paths, l \in LineVals :
          FileCreated(p, l) /\ Quiet(FALSE) /\ UNCHANGED burst
    \/ \E p \in env.paths, l \in LineVals :
          FileModified(p, l) /\ Quiet(FALSE) /\ UNCHANGED burst
    \/ \E t \in timers : TimerFire(t) /\ UNCHANGED <<burst, fw>>
    \/ \E g \in BagToSet(inflight), o \in GenOutcomes, sk \in SinkBehaviours :
          Complete(g, o, sk) /\ UNCHANGED <<burst, fw>>
    \/ \E p \in env.paths : DocumentFile(p, FALSE) /\ Quiet(FALSE) /\ UNCHANGED burst
    \/ \E p \in env.paths : ResetFileTracking(p) /\ UNCHANGED <<burst, fw>>
    \/ Reset /\ Quiet(TRUE) /\ UNCHANGED burst
    \/ Tick /\ UNCHANGED <<burst, fw>>

SpecQuiet == InitQuiet /\ [][NextQuiet]_vars

(***************************************************************************)
(* C37.  From reset() until the next event or manual trigger the           *)
(* controller state is empty: no path is documented, no path has an        *)
(* accumulated count, and none of the maps has an entry, also after a      *)
(* generator call that was in flight at the reset has completed.           *)
(***************************************************************************)
C37_EmptyAfterReset ==
    fw.mode = "quiet" /\ fw.sinceReset =>
        /\ documentedFiles = {}
        /\ \A p \in Paths : GetFileChanges(p) = 0
        /\ fileChanges = EmptyMap
        /\ lastDocumentedTime = EmptyMap
        /\ pendingTimers = EmptyMap


(***************************************************************************)
(* The life cycle of a FileWatcher (mode "life"): start(), the baseline    *)
(* scan, the native watcher, the runs of its listener, and stop().  One    *)
(* file path and one directory path are followed; contents are left out.   *)
(*   fw.disk        the paths that exist                                   *)
(*   fw.phase       "new", "scanning" (start() awaits scanDirectory),      *)
(*                  "watching" (watchDirectory has run)                    *)
(*   fw.watchers    the number of entries of this.watchers                 *)
(*   fw.active      the number of native watchers not closed               *)
(*   fw.stopped     history: stop() has returned                           *)
(*   fw.delivered   the events passed to this.callback, in call order,     *)
(*                  each with whether stop() had returned before           *)
(***************************************************************************)
PathDir == <<"/", "s", "/", "d">>
LifeFiles == {PathA}
LifeDirs == {PathDir}
LifePaths == LifeFiles \cup LifeDirs

Constructed(disk) ==
    [mode |-> "life", disk |-> disk, phase |-> "new", watchers |-> 0,
     active |-> 0, stopped |-> FALSE, knownFiles |-> {}, knownDirs |-> {},
     handlers |-> {}, notified |-> 0, delivered |-> <<>>]

InitLife ==
    /\ InitController(PairConfigs, LifeFiles, {}, {})
    /\ fw \in {Constructed(disk) : disk \in SUBSET LifePaths}

Life == fw.mode = "life"

(* start(): runs up to its await of scanDirectory.                         *)
WatcherStart ==
    /\ Life
    /\ fw.phase = "new"
    /\ fw' = [fw EXCEPT !.phase = "scanning"]
    /\ ControllerUnchanged

(* The scan completes, having added what it found to knownFiles and        *)
(* knownDirs, and start() goes on to watchDirectory: fs.watch and          *)
(* this.watchers.push.                                                     *)
ScanDirectoryDone ==
    /\ Life
    /\ fw.phase = "scanning"
    /\ fw' = [fw EXCEPT !.phase = "watching",
                        !.knownFiles = @ \cup (fw.disk \cap LifeFiles),
                        !.knownDirs = @ \cup (fw.disk \cap LifeDirs),
                        !.watchers = @ + 1,
                        !.active = @ + 1]
    /\ ControllerUnchanged

(* stop(): closes the watchers held in this.watchers and clears the sets.  *)
WatcherStop ==
    /\ Life
    /\ fw.phase # "new"
    /\ ~fw.stopped
    /\ fw' = [fw EXCEPT !.active = @ - fw.watchers,
                        !.watchers = 0,
                        !.knownFiles = {},
                        !.knownDirs = {},
                        !.stopped = TRUE]
    /\ ControllerUnchanged

(* A native watcher that is not closed calls the listener, whose run       *)
(* suspends at its await of stat.                                          *)
LifeNotified(w, p) ==
    IF w.active > 0
    THEN [w EXCEPT !.notified = @ + 1,
                   !.handlers = @ \cup {[n |-> w.notified + 1, path |-> p,
                                         pc |-> "stat", isNewFile |-> FALSE]}]
    ELSE w

(* A file or directory is created or touched, or removed.                  *)
FsTouch(p) ==
    /\ Life
    /\ fw.notified < MaxNotifications
    /\ fw' = LifeNotified([fw EXCEPT !.disk = @ \cup {p}], p)
    /\ ControllerUnchanged

FsRemove(p) ==
    /\ Life
    /\ fw.notified < MaxNotifications
    /\ p \in fw.disk
    /\ fw' = LifeNotified([fw EXCEPT !.disk = @ \ {p}], p)
    /\ ControllerUnchanged

LifeEvent(w, type, p) == [type |-> type, path |-> p, afterStop |-> w.stopped]

KnownFilesUnchanged(w, p) == w.knownFiles

(* this.knownFiles.add(fullPath), in the same synchronous stretch as the   *)
(* knownFiles.has check.                                                   *)
KnownFilesAfterStat(w, p) == w.knownFiles \cup {p}

(* The stat completes.  It throws for a missing path (outer catch); for a  *)
(* directory the run ends, after directory_created if the directory was    *)
(* unknown; for a file the run goes on to its await of readFile.           *)
LifeStatDone(h) ==
    /\ Life
    /\ h \in fw.handlers
    /\ h.pc = "stat"
    /\ fw' =
         IF h.path \notin fw.disk
         THEN [fw EXCEPT !.handlers = @ \ {h}]
         ELSE IF h.path \in LifeDirs
         THEN [fw EXCEPT
                 !.handlers = @ \ {h},
                 !.knownDirs = @ \cup {h.path},
                 !.delivered =
                     IF h.path \in fw.knownDirs THEN @
                     ELSE Append(@, LifeEvent(fw, "directory_created", h.path))]
         ELSE [fw EXCEPT
                 !.knownFiles = KnownFilesAfterStat(fw, h.path),
                 !.handlers = (@ \ {h}) \cup
                     {[h EXCEPT !.pc = "read",
                                !.isNewFile = h.path \notin fw.knownFiles]}]
    /\ ControllerUnchanged

(* The readFile settles; whether it returned or threw, the run calls       *)
(* this.callback with file_created or file_modified.                       *)
LifeReadDone(h) ==
    /\ Life
    /\ h \in fw.handlers
    /\ h.pc = "read"
    /\ fw' = [fw EXCEPT
                !.handlers = @ \ {h},
                !.delivered = Append(@, LifeEvent(fw, EventType(h), h.path))]
    /\ ControllerUnchanged

LifeHandlers == IF Life THEN fw.handlers ELSE {}

NextLife ==
    \/ WatcherStart
    \/ ScanDirectoryDone
    \/ WatcherStop
    \/ \E p \in LifePaths : FsTouch(p)
    \/ \E p \in LifePaths : FsRemove(p)
    \/ \E h \in LifeHandlers : LifeStatDone(h)
    \/ \E h \in LifeHandlers : LifeReadDone(h)

SpecLife == InitLife /\ [][NextLife]_vars

(***************************************************************************)
(* C38.  Once stop() has returned, no event is passed to the callback and  *)
(* no native watcher is active, also when stop() is called while start()   *)
(* awaits its scan or while runs of the listener are suspended.            *)
(***************************************************************************)
C38_QuietAfterStop ==
    Life /\ fw.stopped =>
        /\ fw.active = 0
        /\ \A i \in 1..Len(fw.delivered) : ~fw.delivered[i].afterStop

EventsBeforeStop(type, p) ==
    {i \in 1..Len(fw.delivered) :
        /\ fw.delivered[i].type = type
        /\ fw.delivered[i].path = p
        /\ ~fw.delivered[i].afterStop}

(***************************************************************************)
(* C39.  Between start() and stop() the watcher passes at most one         *)
(* file_created event per file path and at most one directory_created      *)
(* event per directory path to the callback, however the runs of the       *)
(* listener for a path overlap.                                            *)
(***************************************************************************)
C39_CreatedOnce ==
    Life =>
        /\ \A p \in LifeFiles :
              Cardinality(EventsBeforeStop("file_created", p)) <= 1
        /\ \A p \in LifeDirs :
              Cardinality(EventsBeforeStop("directory_created", p)) <= 1

(* A file_created and a later file_modified event of the same path came    *)
(* from runs that were suspended together, before stop().                  *)
C39_Witness ==
    /\ Life
    /\ ~fw.stopped
    /\ Cardinality(EventsBeforeStop("file_created", PathA)) = 1
    /\ EventsBeforeStop("file_modified", PathA) # {}
    /\ Cardinality(EventsBeforeStop("directory_created", PathDir)) = 1

====
